---- MODULE Spec2Model ----
(***************************************************************************)
(* AdminUserService (src/src/service.ts): a map of admin-user records kept *)
(* in memory and in one JSON file.  Every public method reloads the file,  *)
(* works on the in-memory map and, when it mutates, rewrites the file.     *)
(*                                                                         *)
(* JavaScript values are strings here: the tokens "undefined", "null",     *)
(* "true" and "false" stand for the JavaScript values of these names and   *)
(* every other string, "" included, for itself.  No text field of the      *)
(* model takes one of the four tokens as its text.  A record is a function *)
(* from the names of its own properties to values; a property that is      *)
(* missing is outside the DOMAIN, a property set to undefined is inside.   *)
(* A Map is the sequence of its values in insertion order, each keyed by   *)
(* its own id property.                                                    *)
(***************************************************************************)
EXTENDS Integers, Sequences, FiniteSets, TLC

VARIABLES
    file,         \* content of the backing file
    users,        \* AdminUserService.users: the values of the Map, in order
    initialized,  \* AdminUserService.initialized
    now,          \* the clock new Date() reads; one tick per operation
    uuidCounter,  \* how many ids uuidv4() has handed out
    init,         \* the file the run started from (never changes)
    config,       \* config.ts: the names of the collaborators configure() set
    healthy,      \* no readFile, JSON.parse or writeFile has failed so far
    last,         \* the operation that ran last: its input and its outcome
    external,     \* the clock values at which somebody else rewrote the file
    heap,         \* the record objects of the calls in flight, by reference
    stores,       \* the instances calls are in flight on: Map and initialized
    tasks,        \* the calls in flight: where each stands and what it holds
    tick,         \* how many reads and writes of the file the calls have made
    settings,     \* config.ts: the config object, its fields and their values
    calls         \* the calls of configure, resetConfig and getConfig so far

vars == <<file, users, initialized, now, uuidCounter, init, config, healthy, last,
          external, heap, stores, tasks, tick, settings, calls>>

\* Operations per run.
MaxOps == 2

\* Times per run the file is rewritten from outside the service.
MaxExternal == 1

Undefined == "undefined"
Null == "null"
True == "true"
False == "false"

----------------------------------------------------------------------------
(* JavaScript expressions *)

\* A JavaScript value used as a condition.
Truthy(v) == v \notin {Undefined, Null, False, ""}

\* !v
Not(v) == IF Truthy(v) THEN False ELSE True

\* !!v
ToBool(v) == IF Truthy(v) THEN True ELSE False

\* a || b
OrElse(a, b) == IF Truthy(a) THEN a ELSE b

\* r.f : undefined for a property the object does not have
Get(r, f) == IF f \in DOMAIN r THEN r[f] ELSE Undefined

\* r.f = v
Put(r, f, v) == [g \in DOMAIN r \cup {f} |-> IF g = f THEN v ELSE r[g]]

\* delete r.f
Delete(r, f) == [g \in DOMAIN r \ {f} |-> r[g]]

\* { ...a, ...b }
Spread(a, b) == [g \in DOMAIN a \cup DOMAIN b |-> IF g \in DOMAIN b THEN b[g] ELSE a[g]]

\* The object without properties.
EmptyObject == [g \in {} |-> Undefined]

\* new Date().toISOString() at clock value n
ISO(n) == "T" \o ToString(n)

\* bcrypt.hash(password, rounds)
Hash(p) == "$2a$" \o p

\* bcrypt.compare(password, hash)
Compare(p, h) == h = Hash(p)

\* uuidv4(): the k-th fresh id
Uuid(k) == "uuid-" \o ToString(k)

----------------------------------------------------------------------------
(* The Map *)

\* Position of the value stored under key id, 0 when there is none.
IndexOfId(m, id) ==
    IF \E i \in 1..Len(m) : Get(m[i], "id") = id
    THEN CHOOSE i \in 1..Len(m) : Get(m[i], "id") = id
    ELSE 0

\* Position of the first value whose property f equals v, 0 when none:
\* Array.from(map.values()).find(u => u.f === v)
FindBy(m, f, v) ==
    IF \E i \in 1..Len(m) : Get(m[i], f) = v
    THEN CHOOSE i \in 1..Len(m) :
            /\ Get(m[i], f) = v
            /\ \A j \in 1..(i - 1) : Get(m[j], f) # v
    ELSE 0

\* A map.set(id, u) that moves a key it already holds to the end.
MapSetAtEnd(m, id, u) ==
    Append(SelectSeq(m, LAMBDA r : Get(r, "id") # id), u)

\* map.set(id, u): a known key keeps its place, a new key goes last
MapSet(m, id, u) ==
    IF IndexOfId(m, id) # 0 THEN [m EXCEPT ![IndexOfId(m, id)] = u] ELSE Append(m, u)

\* map.delete(id)
MapDelete(m, id) ==
    LET k == IndexOfId(m, id)
    IN  IF k = 0 THEN m ELSE SubSeq(m, 1, k - 1) \o SubSeq(m, k + 1, Len(m))

----------------------------------------------------------------------------
(* The file: loadUsers and saveUsers *)

\* A JSON.stringify that writes only the properties AdminUser declares.
StringifyDeclared(u) ==
    [g \in {h \in DOMAIN u : u[h] # Undefined} \cap
           {"id", "username", "handle", "displayName", "password", "passwordHash",
            "role", "isActive", "active", "createdAt", "updatedAt", "lastLogin",
            "totpSecret", "totpEnabled", "firstLogin"} |-> u[g]]

\* JSON.stringify of one object: a property whose value is undefined is
\* left out, every other property is written as it is.
Stringify(u) == [g \in {h \in DOMAIN u : u[h] # Undefined} |-> u[g]]

\* The file content saveUsers writes: { users: [...] } of the Map's values.
Serialize(m) == [kind |-> "wrapped", users |-> [i \in 1..Len(m) |-> Stringify(m[i])]]

\* Whether readFile and JSON.parse both succeed.
ReadSucceeds(f, ioOk) == ioOk /\ f.kind # "malformed"

\* Array.isArray(parsed) ? parsed : parsed.users || []
UsersArray(f) == IF f.kind \in {"array", "wrapped"} THEN f.users ELSE <<>>

\* The legacy passwordHash is copied into password.
NormalizePassword(u) ==
    IF Truthy(Get(u, "passwordHash")) /\ ~Truthy(Get(u, "password"))
    THEN Put(u, "password", u.passwordHash)
    ELSE u

\* The legacy active is copied into isActive.
NormalizeActive(u) ==
    IF Get(u, "active") # Undefined /\ Get(u, "isActive") = Undefined
    THEN Put(u, "isActive", u.active)
    ELSE u

\* The body of loadUsers' loop for one parsed record.
Normalize(u) == NormalizeActive(NormalizePassword(u))

\* The loop of loadUsers from record i on, m being the Map so far.
RECURSIVE LoadInto(_, _, _)
LoadInto(m, arr, i) ==
    IF i > Len(arr) THEN m
    ELSE LoadInto(MapSet(m, Get(arr[i], "id"), Normalize(arr[i])), arr, i + 1)

\* A loadUsers whose catch block leaves the Map as it was.
LoadFailedKeepsMap(prev) == prev

\* The catch block of loadUsers: the Map is replaced by an empty one.
LoadFailed(prev) == <<>>

\* loadUsers: the Map after it, prev being the Map before.
LoadUsers(prev, f, ioOk) ==
    IF ReadSucceeds(f, ioOk) THEN LoadInto(<<>>, UsersArray(f), 1) ELSE LoadFailed(prev)

\* A start of a method that loads the file on the first call only.
SynchronizeOnce(ioOk) == IF initialized THEN users ELSE LoadUsers(users, file, ioOk)

\* ensureInitialized followed by loadUsers, as every public method starts:
\* the Map after them.  Each method below takes it as its parameter loaded.
Synchronize(ioOk) ==
    LET first == IF initialized THEN users ELSE LoadUsers(users, file, ioOk)
    IN  LoadUsers(first, file, ioOk)

\* A saveUsers that puts the Map back as loaded when the write fails.
SaveFailedRollsBack(mem, loaded) == loaded

\* What is left in the Map when saveUsers throws: the catch block of
\* saveUsers rethrows and undoes nothing.
SaveFailed(mem, loaded) == mem

----------------------------------------------------------------------------
(* What a method hands back *)

\* { ...user, password: undefined }
Redact(u) == Put(u, "password", Undefined)

\* The end of a public method: the Map it leaves, the file it leaves, what
\* it returned or threw, and whether writeFile ran.
Respond(op, arg, ioOk, loaded, mem, newFile, status, ret, write) ==
    /\ users' = mem
    /\ file' = newFile
    /\ initialized' = TRUE
    /\ now' = now + 1
    /\ last' = [op |-> op, arg |-> arg, readOk |-> ReadSucceeds(file, ioOk),
                loaded |-> loaded, fileBefore |-> file, at |-> now,
                status |-> status, ret |-> ret, write |-> write]
    /\ healthy' = (healthy /\ ReadSucceeds(file, ioOk) /\ write # "failed")
    /\ UNCHANGED <<init, config, external, heap, stores, tasks, tick, settings, calls>>

\* await this.saveUsers() and the return after it.
\* writeFile succeeds or throws.
Persist(op, arg, ioOk, loaded, mem, status, ret) ==
    \E wOk \in BOOLEAN :
        IF wOk
        THEN Respond(op, arg, ioOk, loaded, mem, Serialize(mem), status, ret, "ok")
        ELSE Respond(op, arg, ioOk, loaded, SaveFailed(mem, loaded), file,
                     "Failed to persist user changes", <<>>, "failed")

\* A method that returns without calling saveUsers.
Return(op, arg, ioOk, loaded, status, ret) ==
    Respond(op, arg, ioOk, loaded, loaded, file, status, ret, "none")

----------------------------------------------------------------------------
(* The injected collaborators (src/src/config.ts) *)

\* getGenerateTempPassword, getGenerateTOTPSecret, getGenerateTOTPUri and
\* getGenerateTOTPQRCode throw when the function is not configured.
Configured(name) == name \in config

\* The config object after configure() was given these collaborators.
ConfiguredWith(names) == [n \in names |-> "function"]

NotConfigured(name) == "TOTP not configured: " \o name \o " is required"

\* The length createUser asks generateTempPassword for.
TempPasswordLength == 12

\* generateTempPassword(n): a text of n characters
GenerateTempPassword(n) == IF n = 12 THEN "Tmp-Pass-12c" ELSE "Tmp"

\* generateTOTPSecret()
GenerateTOTPSecret == "GENSECRET"

\* generateTOTPUri(secret, issuer, account)
GenerateTOTPUri(secret, issuer, account) ==
    "otpauth://totp/" \o issuer \o ":" \o account \o "?secret=" \o secret

\* generateTOTPQRCode(uri)
GenerateTOTPQRCode(uri) == "qr:" \o uri

----------------------------------------------------------------------------
(* The read-only methods *)

\* A getAllUsers that saves the Map it loaded before it returns.
GetAllUsersSaving(ioOk, loaded) ==
    /\ Persist("getAllUsers", EmptyObject, ioOk, loaded, loaded, "array",
               [i \in 1..Len(loaded) |-> Redact(loaded[i])])
    /\ UNCHANGED uuidCounter

\* getAllUsers
GetAllUsers(ioOk, loaded) ==
    /\ Return("getAllUsers", EmptyObject, ioOk, loaded, "array",
              [i \in 1..Len(loaded) |-> Redact(loaded[i])])
    /\ UNCHANGED uuidCounter

\* getUserById: the object of the Map itself
GetUserById(id, ioOk, loaded) ==
    LET k == IndexOfId(loaded, id)
        arg == [id |-> id]
    IN  /\ IF k = 0
           THEN Return("getUserById", arg, ioOk, loaded, "null", <<>>)
           ELSE Return("getUserById", arg, ioOk, loaded, "object", <<loaded[k]>>)
        /\ UNCHANGED uuidCounter

\* getUserByHandle
GetUserByHandle(handle, ioOk, loaded) ==
    LET k == FindBy(loaded, "handle", handle)
        arg == [handle |-> handle]
    IN  /\ IF k = 0
           THEN Return("getUserByHandle", arg, ioOk, loaded, "null", <<>>)
           ELSE Return("getUserByHandle", arg, ioOk, loaded, "object", <<Redact(loaded[k])>>)
        /\ UNCHANGED uuidCounter

\* getTotpSecret: user?.totpSecret || null
GetTotpSecret(id, ioOk, loaded) ==
    LET k == IndexOfId(loaded, id)
        arg == [id |-> id]
        secret == IF k = 0 THEN Null ELSE OrElse(Get(loaded[k], "totpSecret"), Null)
    IN  /\ IF secret = Null
           THEN Return("getTotpSecret", arg, ioOk, loaded, "null", <<>>)
           ELSE Return("getTotpSecret", arg, ioOk, loaded, "string", <<secret>>)
        /\ UNCHANGED uuidCounter

\* needsFirstLoginSetup: user.firstLogin === true
NeedsFirstLoginSetup(id, ioOk, loaded) ==
    LET k == IndexOfId(loaded, id)
        arg == [id |-> id]
    IN  /\ IF k # 0 /\ Get(loaded[k], "firstLogin") = True
           THEN Return("needsFirstLoginSetup", arg, ioOk, loaded, "true", <<>>)
           ELSE Return("needsFirstLoginSetup", arg, ioOk, loaded, "false", <<>>)
        /\ UNCHANGED uuidCounter

----------------------------------------------------------------------------
(* createUser *)

\* The duplicate check of createUser: some record has this username.
UsernameTaken(m, username) == FindBy(m, "username", username) # 0

\* A createUser that generates a temporary password only without a password.
WantsTempPasswordWithoutPassword(data) == ~Truthy(Get(data, "password"))

\* Whether createUser generates a temporary password.
WantsTempPassword(data) ==
    Truthy(Get(data, "generateCredentials")) \/ ~Truthy(Get(data, "password"))

\* Whether createUser establishes a TOTP secret.
WantsTotp(data) ==
    Truthy(Get(data, "totpSecret")) \/ Truthy(Get(data, "generateCredentials"))

\* A createUser that makes no QR code when the function for it is missing.
MissingCollaboratorButQRCode(data) ==
    IF WantsTempPassword(data) /\ ~Configured("generateTempPassword")
        THEN "generateTempPassword"
    ELSE IF WantsTotp(data) /\ ~Truthy(Get(data, "totpSecret"))
            /\ ~Configured("generateTOTPSecret")
        THEN "generateTOTPSecret"
    ELSE IF WantsTotp(data) /\ ~Configured("generateTOTPUri")
        THEN "generateTOTPUri"
    ELSE ""

\* The first collaborator createUser asks for and does not get, "" if none.
MissingCollaborator(data) ==
    IF WantsTempPassword(data) /\ ~Configured("generateTempPassword")
        THEN "generateTempPassword"
    ELSE IF WantsTotp(data) /\ ~Truthy(Get(data, "totpSecret"))
            /\ ~Configured("generateTOTPSecret")
        THEN "generateTOTPSecret"
    ELSE IF WantsTotp(data) /\ ~Configured("generateTOTPUri")
        THEN "generateTOTPUri"
    ELSE IF WantsTotp(data) /\ ~Configured("generateTOTPQRCode")
        THEN "generateTOTPQRCode"
    ELSE ""

\* tempPassword
TempPasswordOf(data) ==
    IF WantsTempPassword(data) THEN GenerateTempPassword(TempPasswordLength) ELSE Undefined

\* passwordToHash = data.password || tempPassword
PasswordToHash(data) == OrElse(Get(data, "password"), TempPasswordOf(data))

\* A createUser that generates the secret whenever it establishes one.
TotpSecretGenerated(data) == IF ~WantsTotp(data) THEN Null ELSE GenerateTOTPSecret

\* totpSecret
TotpSecretOf(data) ==
    IF ~WantsTotp(data) THEN Null
    ELSE IF Truthy(Get(data, "totpSecret")) THEN data.totpSecret
    ELSE GenerateTOTPSecret

\* totpUri
TotpUriOf(data) ==
    IF WantsTotp(data)
    THEN GenerateTOTPUri(TotpSecretOf(data), "Tinyland.dev", data.username)
    ELSE Undefined

\* qrCode
QrCodeOf(data) == IF WantsTotp(data) THEN GenerateTOTPQRCode(TotpUriOf(data)) ELSE Undefined

\* A createUser that sets firstLogin by the password alone.
FirstLoginByPassword(data) == Not(Get(data, "password"))

\* firstLogin: data.firstLogin !== undefined ? data.firstLogin : !data.password
FirstLoginOf(data) ==
    IF Get(data, "firstLogin") # Undefined THEN data.firstLogin
    ELSE Not(Get(data, "password"))

\* A newUser whose handle is the username.
NewUserWithHandle(data, id, time) ==
    [id |-> id,
     username |-> data.username,
     handle |-> data.username,
     password |-> Hash(OrElse(Get(data, "password"), TempPasswordOf(data))),
     role |-> Get(data, "role"),
     displayName |-> OrElse(Get(data, "displayName"), data.username),
     isActive |-> True,
     createdAt |-> ISO(time),
     updatedAt |-> ISO(time),
     lastLogin |-> Null,
     totpSecret |-> TotpSecretOf(data),
     totpEnabled |-> ToBool(TotpSecretOf(data)),
     firstLogin |-> FirstLoginOf(data)]

\* newUser
NewUser(data, id, time) ==
    [id |-> id,
     username |-> data.username,
     password |-> Hash(PasswordToHash(data)),
     role |-> Get(data, "role"),
     displayName |-> OrElse(Get(data, "displayName"), data.username),
     isActive |-> True,
     createdAt |-> ISO(time),
     updatedAt |-> ISO(time),
     lastLogin |-> Null,
     totpSecret |-> TotpSecretOf(data),
     totpEnabled |-> ToBool(TotpSecretOf(data)),
     firstLogin |-> FirstLoginOf(data)]

\* What createUser returns for newUser.
CreateUserResult(data, newUser) ==
    Spread(newUser, [password |-> Undefined,
                     tempPassword |-> TempPasswordOf(data),
                     qrCode |-> QrCodeOf(data),
                     totpUri |-> TotpUriOf(data)])

CreateUser(data, ioOk, loaded) ==
    LET arg == [data |-> data]
        newUser == NewUser(data, Uuid(uuidCounter + 1), now)
    IN  IF UsernameTaken(loaded, data.username)
        THEN /\ Return("createUser", arg, ioOk, loaded, "Username already exists", <<>>)
             /\ UNCHANGED uuidCounter
        ELSE IF MissingCollaborator(data) # ""
        THEN /\ Return("createUser", arg, ioOk, loaded,
                       NotConfigured(MissingCollaborator(data)), <<>>)
             /\ UNCHANGED uuidCounter
        ELSE /\ Persist("createUser", arg, ioOk, loaded,
                        MapSet(loaded, newUser.id, newUser),
                        "object", <<CreateUserResult(data, newUser)>>)
             /\ uuidCounter' = uuidCounter + 1

----------------------------------------------------------------------------
(* updateUser *)

\* delete data.id; delete data.password; delete data.createdAt
StripProtected(data) == Delete(Delete(Delete(data, "id"), "password"), "createdAt")

\* The condition under which updateUser looks for the new username among
\* the records: data.username && data.username !== user.username
RenameIsChecked(data, user) ==
    Truthy(Get(data, "username")) /\ Get(data, "username") # Get(user, "username")

\* updatedUser
UpdatedUser(user, data, time) == Put(Spread(user, data), "updatedAt", ISO(time))

UpdateUser(id, partial, ioOk, loaded) ==
    LET k == IndexOfId(loaded, id)
        arg == [id |-> id, data |-> partial]
        data == StripProtected(partial)
        updatedUser == UpdatedUser(loaded[k], data, now)
    IN  /\ IF k = 0
           THEN Return("updateUser", arg, ioOk, loaded, "null", <<>>)
           ELSE IF RenameIsChecked(data, loaded[k]) /\ UsernameTaken(loaded, data.username)
           THEN Return("updateUser", arg, ioOk, loaded, "Username already exists", <<>>)
           ELSE Persist("updateUser", arg, ioOk, loaded, MapSet(loaded, id, updatedUser),
                        "object", <<Redact(updatedUser)>>)
        /\ UNCHANGED uuidCounter

----------------------------------------------------------------------------
(* The methods that change one record in place, and deleteUser *)

\* An updatePassword that stores the new password as it is given.
UpdatePasswordUnhashed(id, newPassword, ioOk, loaded) ==
    LET k == IndexOfId(loaded, id)
        arg == [id |-> id, password |-> newPassword]
        user == Put(Put(loaded[k], "password", newPassword), "updatedAt", ISO(now))
    IN  /\ IF k = 0
           THEN Return("updatePassword", arg, ioOk, loaded, "false", <<>>)
           ELSE Persist("updatePassword", arg, ioOk, loaded, MapSet(loaded, id, user),
                        "true", <<>>)
        /\ UNCHANGED uuidCounter

\* updatePassword
UpdatePassword(id, newPassword, ioOk, loaded) ==
    LET k == IndexOfId(loaded, id)
        arg == [id |-> id, password |-> newPassword]
        user == Put(Put(loaded[k], "password", Hash(newPassword)), "updatedAt", ISO(now))
    IN  /\ IF k = 0
           THEN Return("updatePassword", arg, ioOk, loaded, "false", <<>>)
           ELSE Persist("updatePassword", arg, ioOk, loaded, MapSet(loaded, id, user),
                        "true", <<>>)
        /\ UNCHANGED uuidCounter

\* A deleteUser that saves whether or not it found the record.
DeleteUserAlwaysSaves(id, ioOk, loaded) ==
    /\ Persist("deleteUser", [id |-> id], ioOk, loaded, MapDelete(loaded, id), "true", <<>>)
    /\ UNCHANGED uuidCounter

\* A deleteUser that marks the record inactive and keeps it.
DeleteUserSoft(id, ioOk, loaded) ==
    LET k == IndexOfId(loaded, id)
        arg == [id |-> id]
        user == Put(Put(loaded[k], "isActive", False), "updatedAt", ISO(now))
    IN  /\ IF k = 0
           THEN Return("deleteUser", arg, ioOk, loaded, "false", <<>>)
           ELSE Persist("deleteUser", arg, ioOk, loaded, MapSet(loaded, id, user),
                        "true", <<>>)
        /\ UNCHANGED uuidCounter

\* deleteUser
DeleteUser(id, ioOk, loaded) ==
    LET arg == [id |-> id]
    IN  /\ IF IndexOfId(loaded, id) = 0
           THEN Return("deleteUser", arg, ioOk, loaded, "false", <<>>)
           ELSE Persist("deleteUser", arg, ioOk, loaded, MapDelete(loaded, id),
                        "true", <<>>)
        /\ UNCHANGED uuidCounter

\* A toggleUserStatus that activates only a record whose isActive is false.
ToggleUserStatusFromFalse(id, ioOk, loaded) ==
    LET k == IndexOfId(loaded, id)
        arg == [id |-> id]
        user == Put(Put(loaded[k], "isActive",
                        IF Get(loaded[k], "isActive") = False THEN True ELSE False),
                    "updatedAt", ISO(now))
    IN  /\ IF k = 0
           THEN Return("toggleUserStatus", arg, ioOk, loaded, "null", <<>>)
           ELSE Persist("toggleUserStatus", arg, ioOk, loaded, MapSet(loaded, id, user),
                        "object", <<Redact(user)>>)
        /\ UNCHANGED uuidCounter

\* toggleUserStatus
ToggleUserStatus(id, ioOk, loaded) ==
    LET k == IndexOfId(loaded, id)
        arg == [id |-> id]
        user == Put(Put(loaded[k], "isActive", Not(Get(loaded[k], "isActive"))),
                    "updatedAt", ISO(now))
    IN  /\ IF k = 0
           THEN Return("toggleUserStatus", arg, ioOk, loaded, "null", <<>>)
           ELSE Persist("toggleUserStatus", arg, ioOk, loaded, MapSet(loaded, id, user),
                        "object", <<Redact(user)>>)
        /\ UNCHANGED uuidCounter

\* A verifyPassword that turns away only a record whose isActive is false.
VerifiedIndexUnlessFalse(m, handle, password) ==
    LET k == FindBy(m, "handle", handle)
    IN  IF k = 0 \/ Get(m[k], "isActive") = False THEN 0
        ELSE IF ~Truthy(Get(m[k], "password")) THEN 0
        ELSE IF ~Compare(password, m[k].password) THEN 0
        ELSE k

\* A verifyPassword that does not look at isActive.
VerifiedIndexAnyStatus(m, handle, password) ==
    LET k == FindBy(m, "handle", handle)
    IN  IF k = 0 THEN 0
        ELSE IF ~Truthy(Get(m[k], "password")) THEN 0
        ELSE IF ~Compare(password, m[k].password) THEN 0
        ELSE k

\* A verifyPassword that takes the first record with the handle that is
\* active and has the password.
VerifiedIndexAmongAll(m, handle, password) ==
    LET ok == {i \in 1..Len(m) : /\ Get(m[i], "handle") = handle
                                 /\ Truthy(Get(m[i], "isActive"))
                                 /\ Truthy(Get(m[i], "password"))
                                 /\ Compare(password, Get(m[i], "password"))}
    IN  IF ok = {} THEN 0 ELSE CHOOSE i \in ok : \A j \in ok : i <= j

\* The record verifyPassword accepts the password for, as a position in
\* the Map; 0 when it returns null.
VerifiedIndex(m, handle, password) ==
    LET k == FindBy(m, "handle", handle)
    IN  IF k = 0 \/ ~Truthy(Get(m[k], "isActive")) THEN 0
        ELSE IF ~Truthy(Get(m[k], "password")) THEN 0
        ELSE IF ~Compare(password, m[k].password) THEN 0
        ELSE k

\* verifyPassword
VerifyPassword(handle, password, ioOk, loaded) ==
    LET k == VerifiedIndex(loaded, handle, password)
        arg == [handle |-> handle, password |-> password]
        user == Put(loaded[k], "lastLogin", ISO(now))
    IN  /\ IF k = 0
           THEN Return("verifyPassword", arg, ioOk, loaded, "null", <<>>)
           ELSE Persist("verifyPassword", arg, ioOk, loaded,
                        MapSet(loaded, Get(user, "id"), user),
                        "object", <<Redact(user)>>)
        /\ UNCHANGED uuidCounter

\* An enableTotp that leaves firstLogin as it is.
EnableTotpKeepsFirstLogin(id, secret, ioOk, loaded) ==
    LET k == IndexOfId(loaded, id)
        arg == [id |-> id, secret |-> secret]
        user == Put(Put(Put(loaded[k], "totpSecret", secret), "totpEnabled", True),
                    "updatedAt", ISO(now))
    IN  /\ IF k = 0
           THEN Return("enableTotp", arg, ioOk, loaded, "false", <<>>)
           ELSE Persist("enableTotp", arg, ioOk, loaded, MapSet(loaded, id, user),
                        "true", <<>>)
        /\ UNCHANGED uuidCounter

\* enableTotp
EnableTotp(id, secret, ioOk, loaded) ==
    LET k == IndexOfId(loaded, id)
        arg == [id |-> id, secret |-> secret]
        set == Put(Put(Put(loaded[k], "totpSecret", secret), "totpEnabled", True),
                   "updatedAt", ISO(now))
        user == IF Truthy(Get(set, "firstLogin")) THEN Put(set, "firstLogin", False) ELSE set
    IN  /\ IF k = 0
           THEN Return("enableTotp", arg, ioOk, loaded, "false", <<>>)
           ELSE Persist("enableTotp", arg, ioOk, loaded, MapSet(loaded, id, user),
                        "true", <<>>)
        /\ UNCHANGED uuidCounter

\* disableTotp
DisableTotp(id, ioOk, loaded) ==
    LET k == IndexOfId(loaded, id)
        arg == [id |-> id]
        user == Put(Put(Put(loaded[k], "totpSecret", Null), "totpEnabled", False),
                    "updatedAt", ISO(now))
    IN  /\ IF k = 0
           THEN Return("disableTotp", arg, ioOk, loaded, "false", <<>>)
           ELSE Persist("disableTotp", arg, ioOk, loaded, MapSet(loaded, id, user),
                        "true", <<>>)
        /\ UNCHANGED uuidCounter

----------------------------------------------------------------------------
(* The files a run starts from *)

\* A record as createUser writes it, with a handle given by a later update.
Alice ==
    [id |-> "u1", username |-> "alice", handle |-> "ah", displayName |-> "Alice",
     password |-> Hash("pw1"), role |-> "admin", isActive |-> True,
     createdAt |-> "T-old", updatedAt |-> "T-old", lastLogin |-> Null,
     totpSecret |-> Null, totpEnabled |-> False, firstLogin |-> False]

\* A deactivated record (isActive false beside a legacy active true) with
\* the empty username, enrolled in TOTP and waiting for its first login.
Blank ==
    [id |-> "u2", username |-> "", handle |-> "bh", displayName |-> "",
     password |-> Hash("pw2"), role |-> "admin", isActive |-> False, active |-> True,
     createdAt |-> "T-old", updatedAt |-> "T-old", lastLogin |-> Null,
     totpSecret |-> "SECRET", totpEnabled |-> True, firstLogin |-> True]

\* A legacy record: the hash under passwordHash, the flag under active, and
\* a field of the application's own.
Legacy ==
    [id |-> "u1", username |-> "legacy", handle |-> "ah", role |-> "admin",
     passwordHash |-> Hash("pw1"), active |-> True, note |-> "keep"]

\* A record with the handle of Legacy whose canonical fields are present
\* beside the legacy ones: an empty password, and isActive true beside
\* active false.
Shadow ==
    [id |-> "u2", username |-> "shadow", handle |-> "ah", role |-> "admin",
     password |-> "", passwordHash |-> Hash("pw2"),
     isActive |-> True, active |-> False]

\* A record without isActive, marked TOTP-enabled without a secret.
Orphan ==
    [id |-> "u1", username |-> "orphan", handle |-> "ah", role |-> "admin",
     password |-> Hash("pw1"), totpEnabled |-> True, totpSecret |-> Null]

\* An active record without a password, holding a TOTP secret without the
\* totpEnabled flag.
Bare ==
    [id |-> "u2", username |-> "bare", handle |-> "bh", role |-> "admin",
     isActive |-> True, totpSecret |-> "SECRET"]

SeedFiles ==
    { [kind |-> "wrapped", users |-> <<Alice, Blank>>],
      [kind |-> "array", users |-> <<Legacy, Shadow>>],
      [kind |-> "wrapped", users |-> <<Orphan, Bare>>],
      [kind |-> "other", users |-> <<>>],
      [kind |-> "malformed", users |-> <<>>] }

\* Every collaborator configured.
FullConfig ==
    {"generateTempPassword", "generateTOTPSecret", "generateTOTPUri", "generateTOTPQRCode"}

----------------------------------------------------------------------------
(* The inputs of the operations *)

\* When the read fails the Map is empty whatever the file holds and
\* whatever is asked for, so one input of each kind is tried then (of a
\* record the file holds, where there is one); createUser is tried with
\* all of its inputs.

\* The ids of the records in the file and of those the run started with,
\* and an id no record has.
FileIds ==
    {Get(file.users[i], "id") : i \in 1..Len(file.users)}
        \cup {Get(init.users[i], "id") : i \in 1..Len(init.users)}

IdInputs(ioOk) ==
    IF ioOk THEN FileIds \cup {"ghost"}
    ELSE IF Len(file.users) > 0 THEN {Get(file.users[1], "id")}
    ELSE {"ghost"}

HandleInputs(ioOk) == IF ioOk THEN {"ah", "bh", "zz"} ELSE {"ah"}

PasswordInputs(ioOk) == IF ioOk THEN {"pw1", "pw2"} ELSE {"pw1"}

NewPasswordInputs == {"pw2"}

SecretInputs(ioOk) == IF ioOk THEN {"", "NEWSECRET"} ELSE {"NEWSECRET"}

CreateInputs ==
    { [username |-> "", role |-> "admin"],
      [username |-> "alice", role |-> "admin", password |-> "pw1"],
      [username |-> "carol", role |-> "admin", password |-> "pw2"],
      [username |-> "carol", role |-> "admin"] }

PartialInputs(ioOk) ==
    IF ioOk
    THEN { [username |-> ""],
           [username |-> "alice"],
           [totpEnabled |-> True],
           [id |-> "u9", password |-> "plain", createdAt |-> "T-new", lastLogin |-> "T-new"],
           [handle |-> "bh", isActive |-> True],
           [passwordHash |-> Hash("pw1")] }
    ELSE { [username |-> "alice"] }

----------------------------------------------------------------------------
(* The state machine *)

NoOperation ==
    [op |-> "none", arg |-> EmptyObject, readOk |-> TRUE, loaded |-> <<>>,
     fileBefore |-> [kind |-> "other", users |-> <<>>], at |-> 0,
     status |-> "none", ret |-> <<>>, write |-> "none"]

Init ==
    /\ file \in SeedFiles
    /\ init = file
    /\ users = <<>>
    /\ initialized = FALSE
    /\ now = 0
    /\ uuidCounter = 0
    /\ config = FullConfig
    /\ healthy = TRUE
    /\ last = NoOperation
    /\ external = <<>>
    /\ heap = <<>>
    /\ stores = <<>>
    /\ tasks = <<>>
    /\ tick = 0
    /\ settings = ConfiguredWith(config)
    /\ calls = <<>>

Next ==
    /\ now < MaxOps
    /\ \E ioOk \in BOOLEAN :
       \E loaded \in {Synchronize(ioOk)} :
        \/ GetAllUsers(ioOk, loaded)
        \/ \E id \in IdInputs(ioOk) : GetUserById(id, ioOk, loaded)
        \/ \E h \in HandleInputs(ioOk) : GetUserByHandle(h, ioOk, loaded)
        \/ \E d \in CreateInputs : CreateUser(d, ioOk, loaded)
        \/ \E id \in IdInputs(ioOk), d \in PartialInputs(ioOk) : UpdateUser(id, d, ioOk, loaded)
        \/ \E id \in IdInputs(ioOk), p \in NewPasswordInputs : UpdatePassword(id, p, ioOk, loaded)
        \/ \E id \in IdInputs(ioOk) : DeleteUser(id, ioOk, loaded)
        \/ \E id \in IdInputs(ioOk) : ToggleUserStatus(id, ioOk, loaded)
        \/ \E h \in HandleInputs(ioOk), p \in PasswordInputs(ioOk) : VerifyPassword(h, p, ioOk, loaded)
        \/ \E id \in IdInputs(ioOk) : GetTotpSecret(id, ioOk, loaded)
        \/ \E id \in IdInputs(ioOk), s \in SecretInputs(ioOk) : EnableTotp(id, s, ioOk, loaded)
        \/ \E id \in IdInputs(ioOk) : DisableTotp(id, ioOk, loaded)
        \/ \E id \in IdInputs(ioOk) : NeedsFirstLoginSetup(id, ioOk, loaded)

Spec == Init /\ [][Next]_vars

----------------------------------------------------------------------------
(* One createUser, with every combination of its optional inputs *)

\* The objects with the property name set to one of the values, and the
\* object without it.
Optional(name, values) == {EmptyObject} \cup {[f \in {name} |-> v] : v \in values}

\* CreateUserData for a new username: password, generateCredentials,
\* totpSecret and firstLogin each absent or given, the texts also empty.
CreateDataInputs ==
    { Spread(Spread(Spread(Spread([username |-> "carol", role |-> "admin"], p), g), s), f) :
        p \in Optional("password", {"", "pw2"}),
        g \in Optional("generateCredentials", {True, False}),
        s \in Optional("totpSecret", {"", "MYSECRET"}),
        f \in Optional("firstLogin", {True, False}) }

\* What configure() was given: every collaborator, all but one, or none.
ConfigChoices == {FullConfig, {}} \cup {FullConfig \ {c} : c \in FullConfig}

InitCreate ==
    /\ file \in SeedFiles
    /\ init = file
    /\ users = <<>>
    /\ initialized = FALSE
    /\ now = 0
    /\ uuidCounter = 0
    /\ config \in ConfigChoices
    /\ healthy = TRUE
    /\ last = NoOperation
    /\ external = <<>>
    /\ heap = <<>>
    /\ stores = <<>>
    /\ tasks = <<>>
    /\ tick = 0
    /\ settings = ConfiguredWith(config)
    /\ calls = <<>>

\* The first call on a new instance is a createUser.
NextCreate ==
    /\ last.op = "none"
    /\ \E ioOk \in BOOLEAN :
       \E loaded \in {Synchronize(ioOk)} :
       \E d \in CreateDataInputs : CreateUser(d, ioOk, loaded)

SpecCreate == InitCreate /\ [][NextCreate]_vars

----------------------------------------------------------------------------
(* configure, resetConfig and getConfig (src/src/config.ts) *)

\* Calls of configure, resetConfig and getConfig per run.
MaxConfigCalls == 3

\* a ?? b
Nullish(a, b) == IF a \in {Undefined, Null} THEN b ELSE a

\* A configure that replaces the configuration by what it is given.
ReplaceConfig(cfg, c) == c

\* configure(c): config = { ...config, ...c }
MergeConfig(cfg, c) == Spread(cfg, c)

\* getConfig(): { ...config }, a new object with the fields of config
GetConfig(cfg) == Spread(EmptyObject, cfg)

\* getSaltRounds(): config.saltRounds ?? 10
DefaultSaltRounds == "10"

GetSaltRounds == Nullish(Get(settings, "saltRounds"), DefaultSaltRounds)

\* getUsersFilePath(): config.usersFilePath ?? process.cwd() + '/content/...'
DefaultUsersFilePath == "cwd/content/auth/admin-users.json"

GetUsersFilePath == Nullish(Get(settings, "usersFilePath"), DefaultUsersFilePath)

\* The collaborators a getGenerate... function finds in this config object.
CollaboratorsOf(cfg) == {n \in FullConfig : Truthy(Get(cfg, n))}

\* What configure is called with.
ConfigInputs ==
    { [usersFilePath |-> "/a"],
      [saltRounds |-> "14"],
      [usersFilePath |-> "/b", saltRounds |-> "12"],
      [saltRounds |-> Undefined],
      [generateTempPassword |-> "function"],
      EmptyObject }

\* The service is not called between the calls of config.ts.
ConfigFrame ==
    UNCHANGED <<file, users, initialized, now, uuidCounter, init, healthy, last,
                external, heap, stores, tasks, tick>>

\* configure(c)
Configure(c) ==
    /\ Len(calls) < MaxConfigCalls
    /\ settings' = MergeConfig(settings, c)
    /\ config' = CollaboratorsOf(settings')
    /\ calls' = Append(calls, [op |-> "configure", arg |-> c])
    /\ ConfigFrame

\* resetConfig(): config = {}
ResetConfig ==
    /\ Len(calls) < MaxConfigCalls
    /\ settings' = EmptyObject
    /\ config' = CollaboratorsOf(settings')
    /\ calls' = Append(calls, [op |-> "resetConfig", arg |-> EmptyObject])
    /\ ConfigFrame

\* cfg = getConfig(); cfg[f] = v: the caller writes into the object it
\* got, which is not the config object.
GetConfigAndWrite(f, v) ==
    /\ Len(calls) < MaxConfigCalls
    /\ calls' = Append(calls, [op |-> "getConfig", arg |-> Put(GetConfig(settings), f, v)])
    /\ UNCHANGED <<settings, config>>
    /\ ConfigFrame

\* The module as imported: let config = {}
InitConfig ==
    /\ file = [kind |-> "wrapped", users |-> <<Alice, Blank>>]
    /\ init = file
    /\ users = <<>>
    /\ initialized = FALSE
    /\ now = 0
    /\ uuidCounter = 0
    /\ config = {}
    /\ healthy = TRUE
    /\ last = NoOperation
    /\ external = <<>>
    /\ heap = <<>>
    /\ stores = <<>>
    /\ tasks = <<>>
    /\ tick = 0
    /\ settings = EmptyObject
    /\ calls = <<>>

NextConfig ==
    \/ \E c \in ConfigInputs : Configure(c)
    \/ ResetConfig
    \/ \E f \in {"saltRounds", "usersFilePath"} : GetConfigAndWrite(f, "changed")

SpecConfig == InitConfig /\ [][NextConfig]_vars

----------------------------------------------------------------------------
(* The file rewritten between two calls by somebody else *)

\* Alice with another display name.
AliceEdited == Put(Alice, "displayName", "Alicia")

\* A record no seed file holds.
Eve ==
    [id |-> "u3", username |-> "eve", handle |-> "eh", role |-> "admin",
     password |-> Hash("pw3"), isActive |-> True]

\* What the file holds after it was rewritten: Alice changed, Blank gone
\* and Eve added.
ExternalFiles ==
    { [kind |-> "wrapped", users |-> <<AliceEdited, Eve>>] }

\* fs.setContent(...) between the first call of the service and the
\* second: the file changes, the instance and its Map are not touched.
ExternalChange ==
    /\ now = 1
    /\ now < MaxOps
    /\ Len(external) < MaxExternal
    /\ \E f \in ExternalFiles :
          /\ f # file
          /\ file' = f
    /\ external' = Append(external, now)
    /\ UNCHANGED <<users, initialized, now, uuidCounter, init, config, healthy, last,
                   heap, stores, tasks, tick, settings, calls>>

NextExternal == Next \/ ExternalChange

SpecExternal == Init /\ [][NextExternal]_vars

----------------------------------------------------------------------------
(* Calls in flight together                                                *)
(*                                                                         *)
(* Every public method is an async function: it runs until an await, and   *)
(* what other calls do meanwhile happens between its pieces.  A call in    *)
(* flight is a task; its pc names the await it is suspended at:            *)
(*   "start"      not called yet                                           *)
(*   "bootRead"   ensureInitialized's loadUsers, before readFile           *)
(*   "bootApply"  the same loadUsers, readFile pending                     *)
(*   "bootDone"   ensureInitialized, await this.loadUsers() pending        *)
(*   "read"       the method's own loadUsers, before readFile              *)
(*   "apply"      the same loadUsers, readFile pending                     *)
(*   "body"       the method, await this.loadUsers() pending               *)
(*   "hash"       bcrypt.hash or bcrypt.compare pending                    *)
(*   "save"       saveUsers, await getWriteFile() pending                  *)
(*   "written"    saveUsers, writeFile pending                             *)
(*   "done"       returned or thrown                                       *)
(* Records are objects here: the heap holds them, a Map is the sequence of *)
(* the references of its values, and a task keeps the reference it took;   *)
(* the task of a getUserById keeps the reference it returned to its caller.*)
(***************************************************************************)

Instances == {1, 2}

Tasks == {1, 2}

\* What a task holds before it has read or written.
NoData == [kind |-> "none", users |-> <<>>]

\* What a task holds of a readFile that threw.
Unreadable == [kind |-> "unreadable", users |-> <<>>]

\* A call of method op with arguments arg on instance inst.
NewTask(inst, op, arg) ==
    [inst |-> inst, op |-> op, arg |-> arg, pc |-> "start", data |-> NoData,
     user |-> 0, at |-> -1, status |-> "pending", ret |-> <<>>,
     wrote |-> NoData, readAt |-> 0, wroteAt |-> 0, modAt |-> 0]

\* Array.from(map.values()) of a Map of references, in heap hp.
ViewIn(hp, refs) == [i \in 1..Len(refs) |-> hp[refs[i]]]

View(refs) == ViewIn(heap, refs)

\* map.set(id, object r)
SetRefIn(hp, refs, id, r) ==
    LET k == IndexOfId(ViewIn(hp, refs), id)
    IN  IF k # 0 THEN [refs EXCEPT ![k] = r] ELSE Append(refs, r)

\* map.delete(id)
DeleteRefIn(hp, refs, id) ==
    LET k == IndexOfId(ViewIn(hp, refs), id)
    IN  IF k = 0 THEN refs ELSE SubSeq(refs, 1, k - 1) \o SubSeq(refs, k + 1, Len(refs))

\* What a piece of a method leaves: where the task goes, what it returned
\* or threw if it ended, the heap, the Map, the object the task holds, and
\* whether the piece read the clock.
Outcome(pc, status, ret, hp, refs, user, clock) ==
    [pc |-> pc, status |-> status, ret |-> ret, heap |-> hp, refs |-> refs,
     user |-> user, clock |-> clock]

\* The piece of each method between its loadUsers and its next await.
BodyOf(op, arg, refs, hp, time) ==
    LET view == ViewIn(hp, refs)
        end(status, ret) == Outcome("done", status, ret, hp, refs, 0, FALSE)
        handOut(r) == Outcome("done", "object", <<hp[r]>>, hp, refs, r, FALSE)
        k == IF "id" \in DOMAIN arg THEN IndexOfId(view, arg.id) ELSE 0
        h == IF "handle" \in DOMAIN arg THEN FindBy(view, "handle", arg.handle) ELSE 0
        inPlace(obj) == Outcome("save", "pending", <<>>, [hp EXCEPT ![refs[k]] = obj],
                                refs, refs[k], TRUE)
    IN  CASE op = "getAllUsers" ->
                end("array", [i \in 1..Len(view) |-> Redact(view[i])])
          [] op = "getUserById" ->
                IF k = 0 THEN end("null", <<>>) ELSE handOut(refs[k])
          [] op = "getUserByHandle" ->
                IF h = 0 THEN end("null", <<>>) ELSE end("object", <<Redact(view[h])>>)
          [] op = "getTotpSecret" ->
                IF k = 0 \/ ~Truthy(Get(view[k], "totpSecret"))
                THEN end("null", <<>>)
                ELSE end("string", <<view[k].totpSecret>>)
          [] op = "needsFirstLoginSetup" ->
                IF k # 0 /\ Get(view[k], "firstLogin") = True
                THEN end("true", <<>>)
                ELSE end("false", <<>>)
          [] op = "createUser" ->
                IF UsernameTaken(view, arg.data.username)
                THEN end("Username already exists", <<>>)
                ELSE IF MissingCollaborator(arg.data) # ""
                THEN end(NotConfigured(MissingCollaborator(arg.data)), <<>>)
                ELSE Outcome("hash", "pending", <<>>, hp, refs, 0, FALSE)
          [] op = "updateUser" ->
                IF k = 0 THEN end("null", <<>>)
                ELSE IF RenameIsChecked(StripProtected(arg.data), view[k])
                        /\ UsernameTaken(view, arg.data.username)
                THEN end("Username already exists", <<>>)
                ELSE Outcome("save", "pending", <<>>,
                             Append(hp, UpdatedUser(view[k], StripProtected(arg.data), time)),
                             [refs EXCEPT ![k] = Len(hp) + 1], Len(hp) + 1, TRUE)
          [] op = "updatePassword" ->
                IF k = 0 THEN end("false", <<>>)
                ELSE Outcome("hash", "pending", <<>>, hp, refs, refs[k], FALSE)
          [] op = "deleteUser" ->
                IF k = 0 THEN end("false", <<>>)
                ELSE Outcome("save", "pending", <<>>, hp, DeleteRefIn(hp, refs, arg.id),
                             0, FALSE)
          [] op = "toggleUserStatus" ->
                IF k = 0 THEN end("null", <<>>)
                ELSE inPlace(Put(Put(view[k], "isActive", Not(Get(view[k], "isActive"))),
                                 "updatedAt", ISO(time)))
          [] op = "verifyPassword" ->
                IF VerifiedIndex(view, arg.handle, arg.password) = 0
                THEN end("null", <<>>)
                ELSE Outcome("hash", "pending", <<>>, hp, refs,
                             refs[VerifiedIndex(view, arg.handle, arg.password)], FALSE)
          [] op = "enableTotp" ->
                IF k = 0 THEN end("false", <<>>)
                ELSE LET set == Put(Put(Put(view[k], "totpSecret", arg.secret),
                                        "totpEnabled", True), "updatedAt", ISO(time))
                     IN  inPlace(IF Truthy(Get(set, "firstLogin"))
                                 THEN Put(set, "firstLogin", False) ELSE set)
          [] op = "disableTotp" ->
                IF k = 0 THEN end("false", <<>>)
                ELSE inPlace(Put(Put(Put(view[k], "totpSecret", Null),
                                     "totpEnabled", False), "updatedAt", ISO(time)))

\* A piece after bcrypt in which updatePassword first copies into its
\* object what the Map holds under the id by then.
AfterHashOfRefreshed(op, arg, refs, hp, user, time, id) ==
    CASE op = "createUser" ->
            Outcome("save", "pending", <<>>, Append(hp, NewUser(arg.data, id, time)),
                    SetRefIn(hp, refs, id, Len(hp) + 1), Len(hp) + 1, TRUE)
      [] op = "updatePassword" ->
            LET k == IndexOfId(ViewIn(hp, refs), arg.id)
                current == IF k = 0 THEN hp[user] ELSE Spread(hp[user], hp[refs[k]])
            IN  Outcome("save", "pending", <<>>,
                        [hp EXCEPT ![user] = Put(Put(current, "password", Hash(arg.password)),
                                                 "updatedAt", ISO(time))],
                        SetRefIn(hp, refs, arg.id, user), user, TRUE)
      [] op = "verifyPassword" ->
            Outcome("save", "pending", <<>>,
                    [hp EXCEPT ![user] = Put(@, "lastLogin", ISO(time))],
                    SetRefIn(hp, refs, Get(hp[user], "id"), user), user, TRUE)

\* The piece of createUser, updatePassword and verifyPassword after the
\* await of bcrypt, up to saveUsers' await: the task works on the object it
\* holds and puts it into the Map as the Map is by then.
AfterHashOf(op, arg, refs, hp, user, time, id) ==
    CASE op = "createUser" ->
            Outcome("save", "pending", <<>>, Append(hp, NewUser(arg.data, id, time)),
                    SetRefIn(hp, refs, id, Len(hp) + 1), Len(hp) + 1, TRUE)
      [] op = "updatePassword" ->
            Outcome("save", "pending", <<>>,
                    [hp EXCEPT ![user] = Put(Put(@, "password", Hash(arg.password)),
                                             "updatedAt", ISO(time))],
                    SetRefIn(hp, refs, arg.id, user), user, TRUE)
      [] op = "verifyPassword" ->
            Outcome("save", "pending", <<>>,
                    [hp EXCEPT ![user] = Put(@, "lastLogin", ISO(time))],
                    SetRefIn(hp, refs, Get(hp[user], "id"), user), user, TRUE)

\* What a method returns after saveUsers: the status and the value.
ReturnOf(op, arg, hp, user) ==
    CASE op = "createUser" -> <<"object", <<CreateUserResult(arg.data, hp[user])>> >>
      [] op \in {"updateUser", "toggleUserStatus", "verifyPassword"} ->
            <<"object", <<Redact(hp[user])>> >>
      [] op \in {"updatePassword", "deleteUser", "enableTotp", "disableTotp"} ->
            <<"true", <<>> >>

\* The variables of the calls made one after the other are not touched by
\* the calls in flight.
AsyncFrame ==
    UNCHANGED <<users, initialized, init, config, healthy, last, external, settings, calls>>

\* Task t goes on with these of its fields changed.
Become(t, changes) == tasks' = [tasks EXCEPT ![t] = Spread(@, changes)]

\* The Map of the instance task t runs on.
MapOf(t) == stores[tasks[t].inst].users

\* What readFile hands to the task that awaits it.
ReadFileNow(f, ioOk) == IF ioOk THEN f ELSE Unreadable

\* A loadUsers that parses what the file holds when readFile's await ends.
ParsedLate(data) == LoadInto(<<>>, UsersArray(file), 1)

\* JSON.parse of what the task read, and the loop of loadUsers over it.
Parsed(data) == LoadInto(<<>>, UsersArray(data), 1)

\* The call: ensureInitialized looks at initialized and the method
\* suspends at the first await of a loadUsers.
AStart(t) ==
    /\ tasks[t].pc = "start"
    /\ Become(t, [pc |-> IF stores[tasks[t].inst].initialized THEN "read" ELSE "bootRead"])
    /\ UNCHANGED <<file, now, uuidCounter, heap, stores, tick>>
    /\ AsyncFrame

\* loadUsers calls readFile: the content is the file's at this moment.
ARead(t) ==
    /\ tasks[t].pc \in {"bootRead", "read"}
    /\ \E ioOk \in BOOLEAN :
          Become(t, [pc |-> IF tasks[t].pc = "bootRead" THEN "bootApply" ELSE "apply",
                     data |-> ReadFileNow(file, ioOk),
                     readAt |-> tick + 1])
    /\ tick' = tick + 1
    /\ UNCHANGED <<file, now, uuidCounter, heap, stores>>
    /\ AsyncFrame

\* loadUsers after readFile: parse, clear, fill the Map with the new
\* objects; or the catch block.
AApply(t) ==
    /\ tasks[t].pc \in {"bootApply", "apply"}
    /\ IF ReadSucceeds(tasks[t].data, tasks[t].data.kind # "unreadable")
       THEN \E recs \in {Parsed(tasks[t].data)} :
              /\ heap' = heap \o recs
              /\ stores' = [stores EXCEPT ![tasks[t].inst].users =
                                [i \in 1..Len(recs) |-> Len(heap) + i]]
       ELSE /\ heap' = heap
            /\ stores' = [stores EXCEPT ![tasks[t].inst].users = LoadFailed(@)]
    /\ Become(t, [pc |-> IF tasks[t].pc = "bootApply" THEN "bootDone" ELSE "body"])
    /\ UNCHANGED <<file, now, uuidCounter, tick>>
    /\ AsyncFrame

\* ensureInitialized after its loadUsers: initialized = true, and the
\* method goes on to its own loadUsers.
ABootDone(t) ==
    /\ tasks[t].pc = "bootDone"
    /\ stores' = [stores EXCEPT ![tasks[t].inst].initialized = TRUE]
    /\ Become(t, [pc |-> "read"])
    /\ UNCHANGED <<file, now, uuidCounter, heap, tick>>
    /\ AsyncFrame

\* The method after its loadUsers, up to its next await or its end.
ABody(t) ==
    /\ tasks[t].pc = "body"
    /\ \E o \in {BodyOf(tasks[t].op, tasks[t].arg, MapOf(t), heap, now)} :
          /\ heap' = o.heap
          /\ stores' = [stores EXCEPT ![tasks[t].inst].users = o.refs]
          /\ now' = IF o.clock THEN now + 1 ELSE now
          /\ Become(t, [pc |-> o.pc, status |-> o.status, ret |-> o.ret,
                        user |-> o.user,
                        at |-> IF o.clock THEN now ELSE tasks[t].at])
    /\ UNCHANGED <<file, uuidCounter, tick>>
    /\ AsyncFrame

\* createUser, updatePassword and verifyPassword after bcrypt.
AHash(t) ==
    /\ tasks[t].pc = "hash"
    /\ \E o \in {AfterHashOf(tasks[t].op, tasks[t].arg, MapOf(t), heap, tasks[t].user,
                             now, Uuid(uuidCounter + 1))} :
          /\ heap' = o.heap
          /\ stores' = [stores EXCEPT ![tasks[t].inst].users = o.refs]
          /\ Become(t, [pc |-> o.pc, user |-> o.user, at |-> now])
    /\ now' = now + 1
    /\ uuidCounter' = IF tasks[t].op = "createUser" THEN uuidCounter + 1 ELSE uuidCounter
    /\ UNCHANGED <<file, tick>>
    /\ AsyncFrame

\* saveUsers after await getWriteFile(): the Map as it is now is
\* serialized and writeFile is called; it writes or it throws.
ASave(t) ==
    /\ tasks[t].pc = "save"
    /\ \E wOk \in BOOLEAN :
          IF wOk
          THEN /\ file' = Serialize(View(MapOf(t)))
               /\ Become(t, [pc |-> "written", wrote |-> Serialize(View(MapOf(t))),
                             wroteAt |-> tick + 1])
          ELSE /\ file' = file
               /\ Become(t, [pc |-> "done", status |-> "Failed to persist user changes"])
    /\ tick' = tick + 1
    /\ UNCHANGED <<now, uuidCounter, heap, stores>>
    /\ AsyncFrame

\* The method after saveUsers: it returns.
AReturn(t) ==
    /\ tasks[t].pc = "written"
    /\ \E r \in {ReturnOf(tasks[t].op, tasks[t].arg, heap, tasks[t].user)} :
          Become(t, [pc |-> "done", status |-> r[1], ret |-> r[2]])
    /\ UNCHANGED <<file, now, uuidCounter, heap, stores, tick>>
    /\ AsyncFrame

\* The calls the first task makes: each mutating method, aimed at a record
\* of the file.
FirstCalls ==
    { [op |-> "createUser",
       arg |-> [data |-> [username |-> "carol", role |-> "admin", password |-> "pw2"]]],
      [op |-> "updateUser", arg |-> [id |-> "u1", data |-> [displayName |-> "Al"]]],
      [op |-> "updatePassword", arg |-> [id |-> "u1", password |-> "pw2"]],
      [op |-> "deleteUser", arg |-> [id |-> "u2"]],
      [op |-> "toggleUserStatus", arg |-> [id |-> "u1"]],
      [op |-> "verifyPassword", arg |-> [handle |-> "ah", password |-> "pw1"]],
      [op |-> "enableTotp", arg |-> [id |-> "u1", secret |-> "NEWSECRET"]],
      [op |-> "disableTotp", arg |-> [id |-> "u2"]] }

\* The calls the second task makes.
SecondCalls ==
    { [op |-> "getAllUsers", arg |-> EmptyObject],
      [op |-> "createUser",
       arg |-> [data |-> [username |-> "carol", role |-> "admin", password |-> "pw2"]]],
      [op |-> "toggleUserStatus", arg |-> [id |-> "u1"]] }

\* Two calls, neither awaited before the other is made: the first on an
\* instance that has served calls before, the second on the same instance
\* or on a new one.  The file holds Alice and Blank.
InitAsync ==
    /\ file = [kind |-> "wrapped", users |-> <<Alice, Blank>>]
    /\ init = file
    /\ users = <<>>
    /\ initialized = FALSE
    /\ now = 0
    /\ uuidCounter = 0
    /\ config = FullConfig
    /\ healthy = TRUE
    /\ last = NoOperation
    /\ external = <<>>
    /\ heap = Parsed(file)
    /\ stores = <<[users |-> <<1, 2>>, initialized |-> TRUE],
                  [users |-> <<>>, initialized |-> FALSE]>>
    /\ tasks \in {<<NewTask(1, a.op, a.arg), NewTask(i, b.op, b.arg)>> :
                    a \in FirstCalls, b \in SecondCalls, i \in Instances}
    /\ tick = 0
    /\ settings = ConfiguredWith(config)
    /\ calls = <<>>

NextAsync ==
    \E t \in Tasks :
        \/ AStart(t)
        \/ ARead(t)
        \/ AApply(t)
        \/ ABootDone(t)
        \/ ABody(t)
        \/ AHash(t)
        \/ ASave(t)
        \/ AReturn(t)

SpecAsync == InitAsync /\ [][NextAsync]_vars

----------------------------------------------------------------------------
(* A caller that changes what a read returned to it *)

\* The methods that return records without changing any.
ReadingOps == {"getAllUsers", "getUserById", "getUserByHandle"}

\* users[0].username = 'MUTATED' on what call t returned: on the object
\* getUserById returned, which is the object of the Map, and on the copy
\* getAllUsers and getUserByHandle made.  modAt is the moment, counted in
\* reads and writes of the file so far.
ACallerModifies(t) ==
    /\ tasks[t].pc = "done"
    /\ tasks[t].op \in ReadingOps
    /\ tasks[t].status \in {"array", "object"}
    /\ Len(tasks[t].ret) > 0
    /\ tasks[t].modAt = 0
    /\ heap' = IF tasks[t].op = "getUserById"
               THEN [heap EXCEPT ![tasks[t].user] = Put(@, "username", "MUTATED")]
               ELSE heap
    /\ Become(t, [ret |-> [tasks[t].ret EXCEPT ![1] = Put(@, "username", "MUTATED")],
                  modAt |-> tick])
    /\ UNCHANGED <<file, now, uuidCounter, stores, tick>>
    /\ AsyncFrame

\* The reads whose result the caller changes.
ReadCalls ==
    { [op |-> "getAllUsers", arg |-> EmptyObject],
      [op |-> "getUserById", arg |-> [id |-> "u1"]],
      [op |-> "getUserById", arg |-> [id |-> "u2"]],
      [op |-> "getUserByHandle", arg |-> [handle |-> "bh"]] }

\* A mutating call and a read, neither awaited before the other is made,
\* on one instance or on two.
InitCaller ==
    /\ file = [kind |-> "wrapped", users |-> <<Alice, Blank>>]
    /\ init = file
    /\ users = <<>>
    /\ initialized = FALSE
    /\ now = 0
    /\ uuidCounter = 0
    /\ config = FullConfig
    /\ healthy = TRUE
    /\ last = NoOperation
    /\ external = <<>>
    /\ heap = Parsed(file)
    /\ stores = <<[users |-> <<1, 2>>, initialized |-> TRUE],
                  [users |-> <<>>, initialized |-> FALSE]>>
    /\ tasks \in {<<NewTask(1, a.op, a.arg), NewTask(i, b.op, b.arg)>> :
                    a \in FirstCalls, b \in ReadCalls, i \in Instances}
    /\ tick = 0
    /\ settings = ConfiguredWith(config)
    /\ calls = <<>>

NextCaller ==
    \/ NextAsync
    \/ \E t \in Tasks : ACallerModifies(t)

SpecCaller == InitCaller /\ [][NextCaller]_vars

----------------------------------------------------------------------------
(* What the claims speak of *)

\* No two records of a sequence share a username.
DistinctUsernames(m) ==
    \A i, j \in 1..Len(m) : i # j => Get(m[i], "username") # Get(m[j], "username")

\* totpEnabled is true exactly when totpSecret is neither null nor missing.
TotpConsistent(u) ==
    (Get(u, "totpEnabled") = True) <=> (Get(u, "totpSecret") \notin {Null, Undefined})

\* The record of m stored under the id of r.
StoredAs(m, r) == m[IndexOfId(m, Get(r, "id"))]

\* Record r shows the password hash stored for it in m in some property.
CarriesStoredHash(m, r) ==
    /\ IndexOfId(m, Get(r, "id")) # 0
    /\ Truthy(Get(StoredAs(m, r), "password"))
    /\ \E f \in DOMAIN r : r[f] = StoredAs(m, r).password

\* The last operation ended this way without calling writeFile and left
\* the file and the records it loaded as they were.
Refused(status) ==
    /\ last.status = status
    /\ last.ret = <<>>
    /\ last.write = "none"
    /\ file = last.fileBefore
    /\ users = last.loaded

----------------------------------------------------------------------------
(* C1 *)

\* C1: from a file with pairwise distinct usernames, while every read and
\* write succeeds, no two records of the Map or of the file share a
\* username, the empty username included.
C1_UsernamesStayUnique ==
    (healthy /\ DistinctUsernames(UsersArray(init)))
        => (DistinctUsernames(users) /\ DistinctUsernames(UsersArray(file)))

----------------------------------------------------------------------------
(* C2 *)

\* The last operation was a createUser with the username of a loaded record.
CreateCollides ==
    /\ last.op = "createUser"
    /\ \E i \in 1..Len(last.loaded) :
          Get(last.loaded[i], "username") = last.arg.data.username

\* The last operation was an updateUser of a stored record that names, as
\* the new username, the username another record holds.
RenameCollides ==
    /\ last.op = "updateUser"
    /\ "username" \in DOMAIN last.arg.data
    /\ \E i, j \in 1..Len(last.loaded) :
          /\ i # j
          /\ Get(last.loaded[i], "id") = last.arg.id
          /\ Get(last.loaded[i], "username") # last.arg.data.username
          /\ Get(last.loaded[j], "username") = last.arg.data.username

\* C2: a createUser or a renaming updateUser that collides with another
\* record's username fails with 'Username already exists', writes nothing
\* and leaves the file and the records unchanged (looked at where no write
\* of the operation failed on its own account).
C2_CollisionRefused ==
    ((CreateCollides \/ RenameCollides) /\ last.write # "failed")
        => Refused("Username already exists")

----------------------------------------------------------------------------
(* C3 *)

RedactingOps ==
    {"getAllUsers", "getUserByHandle", "createUser", "updateUser",
     "verifyPassword", "toggleUserStatus"}

\* C3: no record returned by getAllUsers, getUserByHandle, createUser,
\* updateUser, verifyPassword or toggleUserStatus carries the stored
\* password hash in any of its properties, legacy records included.
C3_NoHashReturned ==
    last.op \in RedactingOps
        => \A i \in 1..Len(last.ret) : ~CarriesStoredHash(users, last.ret[i])

----------------------------------------------------------------------------
(* C4 *)

\* The record verifyPassword looks at: the first with the handle asked for.
Looked == FindBy(last.loaded, "handle", last.arg.handle)

\* The four cases of C4, on the records as loaded.
UnknownHandle == Looked = 0
InactiveRecord == Looked # 0 /\ Get(last.loaded[Looked], "isActive") \in {False, Undefined}
NoStoredHash == Looked # 0 /\ Get(last.loaded[Looked], "password") \in {Undefined, ""}
WrongPassword ==
    /\ Looked # 0
    /\ Get(last.loaded[Looked], "password") \notin {Undefined, ""}
    /\ Get(last.loaded[Looked], "password") # Hash(last.arg.password)

\* C4: verifyPassword returns null, writes nothing and leaves the file and
\* every record (its lastLogin too) as loaded when the handle is unknown,
\* the record is inactive, it has no stored hash or the password is wrong;
\* the caller sees the same outcome in the four cases.
C4_VerifyFailsClosed ==
    (last.op = "verifyPassword"
        /\ (UnknownHandle \/ InactiveRecord \/ NoStoredHash \/ WrongPassword))
        => Refused("null")

\* A deactivated record was asked for with its own password, and one
\* without isActive too (the second by its handle "ah" with "pw1").
C4_Witness ==
    /\ last.op = "verifyPassword"
    /\ InactiveRecord
    /\ ~NoStoredHash
    /\ ~WrongPassword
    /\ "isActive" \notin DOMAIN last.loaded[Looked]

----------------------------------------------------------------------------
(* C5 *)

\* C5: a record verifyPassword returns was active, after the load's
\* normalization, in the file that call read.
C5_VerifiedWasActive ==
    (last.op = "verifyPassword" /\ last.status = "object")
        => /\ last.readOk
           /\ \E i \in 1..Len(LoadInto(<<>>, UsersArray(last.fileBefore), 1)) :
                LET u == LoadInto(<<>>, UsersArray(last.fileBefore), 1)[i]
                IN  /\ Get(u, "id") = Get(last.ret[1], "id")
                    /\ Get(u, "isActive") = True

\* verifyPassword returned a record that the file holds with the legacy
\* active flag only.
C5_Witness ==
    /\ last.op = "verifyPassword"
    /\ last.status = "object"
    /\ \E i \in 1..Len(last.fileBefore.users) :
          /\ Get(last.fileBefore.users[i], "id") = Get(last.ret[1], "id")
          /\ "isActive" \notin DOMAIN last.fileBefore.users[i]

----------------------------------------------------------------------------
(* C6 *)

\* The last operation was a verifyPassword that found an active record
\* whose stored hash matches the password, and its write succeeded.
VerifyMatched ==
    /\ last.op = "verifyPassword"
    /\ Looked # 0
    /\ Get(last.loaded[Looked], "isActive") = True
    /\ Get(last.loaded[Looked], "password") = Hash(last.arg.password)
    /\ last.write # "failed"

\* C6: a matching verifyPassword sets the record's lastLogin to the current
\* time, writes the whole Map, and returns the record without its hash; the
\* file written holds the new lastLogin.
C6_VerifySuccess ==
    VerifyMatched
        => /\ last.status = "object"
           /\ last.write = "ok"
           /\ Get(users[Looked], "lastLogin") = ISO(last.at)
           /\ Len(file.users) = Len(users)
           /\ \A i \in 1..Len(users) : file.users[i] = Stringify(users[i])
           /\ Get(file.users[Looked], "lastLogin") = ISO(last.at)
           /\ Get(last.ret[1], "id") = Get(last.loaded[Looked], "id")
           /\ Get(last.ret[1], "lastLogin") = ISO(last.at)
           /\ ~CarriesStoredHash(users, last.ret[1])

----------------------------------------------------------------------------
(* C7 *)

\* C7: from a file whose records all have totpEnabled true exactly when
\* totpSecret is non-null, every record of the Map and of the file keeps
\* that relation under every operation (stated here for the runs in which
\* every read and write succeeds, where the Map and the file agree).
C7_TotpStaysConsistent ==
    (healthy /\ \A i \in 1..Len(init.users) : TotpConsistent(init.users[i]))
        => /\ \A i \in 1..Len(users) : TotpConsistent(users[i])
           /\ \A i \in 1..Len(file.users) : TotpConsistent(file.users[i])

----------------------------------------------------------------------------
(* C8 *)

\* C8: after a load, also of a file in which a record breaks the relation,
\* every record of the Map has totpEnabled true exactly when totpSecret is
\* non-null.
C8_LoadRestoresTotp ==
    (last.op # "none" /\ last.readOk)
        => \A i \in 1..Len(last.loaded) : TotpConsistent(last.loaded[i])

----------------------------------------------------------------------------
(* C9 *)

\* The record the last operation was aimed at, as the Map holds it now and
\* as it was loaded.
Target == users[IndexOfId(users, last.arg.id)]
TargetLoaded == last.loaded[IndexOfId(last.loaded, last.arg.id)]

\* The Map holds what the last operation did to it.
MutationInMap ==
    CASE last.op = "createUser" ->
            /\ Len(users) = Len(last.loaded) + 1
            /\ SubSeq(users, 1, Len(last.loaded)) = last.loaded
            /\ users[Len(users)].username = last.arg.data.username
      [] last.op = "deleteUser" ->
            /\ IndexOfId(last.loaded, last.arg.id) # 0
            /\ IndexOfId(users, last.arg.id) = 0
      [] last.op = "updateUser" ->
            /\ Get(Target, "updatedAt") = ISO(last.at)
            /\ \A f \in DOMAIN last.arg.data \ {"id", "password", "createdAt"} :
                  Get(Target, f) = last.arg.data[f]
      [] last.op = "updatePassword" ->
            Get(Target, "password") = Hash(last.arg.password)
      [] last.op = "toggleUserStatus" ->
            /\ Get(Target, "isActive") \in {True, False}
            /\ Truthy(Get(Target, "isActive")) # Truthy(Get(TargetLoaded, "isActive"))
      [] last.op = "enableTotp" ->
            Get(Target, "totpSecret") = last.arg.secret /\ Get(Target, "totpEnabled") = True
      [] last.op = "disableTotp" ->
            Get(Target, "totpSecret") = Null /\ Get(Target, "totpEnabled") = False
      [] last.op = "verifyPassword" ->
            Get(users[Looked], "lastLogin") = ISO(last.at)
      [] OTHER -> FALSE

\* C9: when the write fails in a mutating operation that found its target,
\* the operation fails with 'Failed to persist user changes', the file is
\* unchanged and the Map holds the mutation.
C9_WriteFailureKeepsMutation ==
    last.write = "failed"
        => /\ last.status = "Failed to persist user changes"
           /\ last.ret = <<>>
           /\ file = last.fileBefore
           /\ MutationInMap

\* The write failed in a verifyPassword that matched.
C9_Witness ==
    /\ last.write = "failed"
    /\ last.op = "verifyPassword"
    /\ Get(last.loaded[Looked], "lastLogin") # ISO(last.at)

----------------------------------------------------------------------------
(* C10 *)

\* The outcome of the last operation is the one an empty store gives.
AsOnEmptyStore ==
    CASE last.op = "getAllUsers" ->
            last.status = "array" /\ last.ret = <<>> /\ last.write = "none"
      [] last.op \in {"getUserById", "getUserByHandle", "getTotpSecret",
                      "verifyPassword", "updateUser", "toggleUserStatus"} ->
            Refused("null")
      [] last.op \in {"needsFirstLoginSetup", "updatePassword", "deleteUser",
                      "enableTotp", "disableTotp"} ->
            Refused("false")
      [] last.op = "createUser" ->
            /\ last.status \in {"object", "Failed to persist user changes"}
            /\ Len(users) = 1
            /\ last.status = "object" => file.users = <<Stringify(users[1])>>
      [] OTHER -> FALSE

\* C10: when the read or the parse of the file fails, the operation does
\* not fail for it: the Map becomes empty and the operation answers as on
\* an empty store.
C10_ReadFailureIsEmptyStore ==
    (last.op # "none" /\ ~last.readOk)
        => /\ last.loaded = <<>>
           /\ AsOnEmptyStore

\* The read failed in an id-based mutator aimed at a record the file holds,
\* on an instance whose Map held records from the operation before.
C10_Witness ==
    /\ ~last.readOk
    /\ last.op = "deleteUser"
    /\ last.fileBefore.kind # "malformed"
    /\ \E i \in 1..Len(last.fileBefore.users) :
          Get(last.fileBefore.users[i], "id") = last.arg.id
    /\ now = 2

----------------------------------------------------------------------------
(* C11 *)

\* The records of the file the last operation read, parsed and normalized.
FreshLoad == LoadInto(<<>>, UsersArray(last.fileBefore), 1)

\* The result of the last operation, where it is a read of records, is the
\* one the records of the file give.
AnswersFromFile ==
    CASE last.op = "getAllUsers" ->
            last.ret = [i \in 1..Len(FreshLoad) |-> Redact(FreshLoad[i])]
      [] last.op = "getUserById" ->
            IF IndexOfId(FreshLoad, last.arg.id) = 0
            THEN last.status = "null"
            ELSE last.ret = <<FreshLoad[IndexOfId(FreshLoad, last.arg.id)]>>
      [] last.op = "getUserByHandle" ->
            IF FindBy(FreshLoad, "handle", last.arg.handle) = 0
            THEN last.status = "null"
            ELSE last.ret = <<Redact(FreshLoad[FindBy(FreshLoad, "handle", last.arg.handle)])>>
      [] last.op \in {"updateUser", "toggleUserStatus"} ->
            (last.status = "null") <=> (IndexOfId(FreshLoad, last.arg.id) = 0)
      [] last.op \in {"updatePassword", "deleteUser", "enableTotp", "disableTotp"} ->
            (last.status = "false") <=> (IndexOfId(FreshLoad, last.arg.id) = 0)
      [] OTHER -> TRUE

\* C11: an operation whose read succeeds works on exactly the records of
\* the file as it is at that read, also when the file was rewritten from
\* outside since the call before: records added are there, records removed
\* are gone, changed fields have their new values.
C11_ReadsOwnFile ==
    (last.op # "none" /\ last.readOk)
        => /\ last.loaded = FreshLoad
           /\ AnswersFromFile

\* The second call, a getAllUsers, came after the file of Alice and Blank
\* was rewritten from outside, and returned Alice changed and Eve, not Blank.
C11_Witness ==
    /\ external = <<1>>
    /\ now = 2
    /\ init.users = <<Alice, Blank>>
    /\ last.op = "getAllUsers"
    /\ Len(last.ret) = 2
    /\ Get(last.ret[1], "displayName") = "Alicia"
    /\ Get(last.ret[2], "id") = "u3"

----------------------------------------------------------------------------
(* C12 *)

\* The record of file content c with the id task t works on.
RecordOf(t, c) ==
    LET id == IF "id" \in DOMAIN tasks[t].arg THEN tasks[t].arg.id
              ELSE Get(heap[tasks[t].user], "id")
    IN  IF IndexOfId(c.users, id) = 0 THEN EmptyObject ELSE c.users[IndexOfId(c.users, id)]

\* File content c holds what task t, which got as far as saveUsers, did to
\* its record.
MutationIn(t, c) ==
    LET T == tasks[t]
        r == RecordOf(t, c)
    IN  CASE T.op = "createUser" -> Get(r, "username") = T.arg.data.username
          [] T.op = "updateUser" ->
                /\ Get(r, "updatedAt") = ISO(T.at)
                /\ \A f \in DOMAIN StripProtected(T.arg.data) : Get(r, f) = T.arg.data[f]
          [] T.op = "updatePassword" ->
                Get(r, "password") = Hash(T.arg.password) /\ Get(r, "updatedAt") = ISO(T.at)
          [] T.op = "deleteUser" -> r = EmptyObject
          [] T.op = "toggleUserStatus" ->
                /\ Get(r, "updatedAt") = ISO(T.at)
                /\ Get(r, "isActive") = Get(heap[T.user], "isActive")
          [] T.op = "verifyPassword" -> Get(r, "lastLogin") = ISO(T.at)
          [] T.op = "enableTotp" ->
                /\ Get(r, "totpSecret") = T.arg.secret
                /\ Get(r, "totpEnabled") = True
                /\ Get(r, "updatedAt") = ISO(T.at)
          [] T.op = "disableTotp" ->
                /\ Get(r, "totpSecret") = Null
                /\ Get(r, "totpEnabled") = False
                /\ Get(r, "updatedAt") = ISO(T.at)
          [] OTHER -> FALSE

\* Task t returned from a mutating method after its writeFile succeeded.
Succeeded(t) == tasks[t].pc = "done" /\ tasks[t].wroteAt # 0

\* The two calls in flight run on one instance.
SameInstance == DOMAIN tasks = Tasks /\ tasks[1].inst = tasks[2].inst

\* No readFile, JSON.parse or writeFile of the calls in flight has failed.
NoFault ==
    \A t \in DOMAIN tasks :
        /\ tasks[t].data.kind \notin {"unreadable", "malformed"}
        /\ tasks[t].status # "Failed to persist user changes"

\* C12: a mutating call that returns success has written a file content
\* that holds its own mutation, however another call on the same instance
\* (a read-only one too) runs between its awaits; stated for the runs in
\* which no read and no write fails.
C12_WriteHoldsOwnMutation ==
    (SameInstance /\ NoFault)
        => \A t \in Tasks : Succeeded(t) => MutationIn(t, tasks[t].wrote)

----------------------------------------------------------------------------
(* C13 *)

\* The two calls in flight are createUser calls with one username on one
\* instance.
TwinCreates ==
    /\ SameInstance
    /\ tasks[1].op = "createUser"
    /\ tasks[2].op = "createUser"
    /\ tasks[1].arg.data.username = tasks[2].arg.data.username

\* C13: of two createUser calls with the same new username in flight on one
\* instance at most one succeeds, and the file never holds two records with
\* that username; stated for the runs in which no read and no write fails.
C13_TwinCreatesExclude ==
    (TwinCreates /\ NoFault)
        => /\ ~(tasks[1].status = "object" /\ tasks[2].status = "object")
           /\ Cardinality({i \in 1..Len(file.users) :
                  Get(file.users[i], "username") = tasks[1].arg.data.username}) <= 1

----------------------------------------------------------------------------
(* C14 *)

\* Two instances over one file, each with one mutating call that has
\* returned after writing.
TwoWriters ==
    /\ DOMAIN tasks = Tasks
    /\ tasks[1].inst # tasks[2].inst
    /\ \A t \in Tasks : Succeeded(t)

\* The task whose writeFile ran last, and the other one.
LastWriter == IF tasks[1].wroteAt > tasks[2].wroteAt THEN 1 ELSE 2
FirstWriter == 3 - LastWriter

\* The last writer's readFile and JSON.parse succeeded: its Map was loaded
\* from the file and not emptied by the catch block of loadUsers.
LastWriterLoaded ==
    ReadSucceeds(tasks[LastWriter].data, tasks[LastWriter].data.kind # "unreadable")

\* C14: with two instances over one file, each having made one mutation,
\* the file at the end is the serialization of the Map of the instance that
\* wrote last, and it holds the other instance's mutation only if that one
\* was written before the last writer loaded the file.
C14_LastWriteWins ==
    TwoWriters
        => /\ file = Serialize(View(MapOf(LastWriter)))
           /\ (LastWriterLoaded /\ MutationIn(FirstWriter, file))
                 => tasks[FirstWriter].wroteAt < tasks[LastWriter].readAt

\* The second instance read the file, the first wrote its mutation, the
\* second wrote last: the first one's mutation is lost.
C14_Witness ==
    /\ TwoWriters
    /\ LastWriter = 2
    /\ tasks[2].readAt < tasks[1].wroteAt
    /\ tasks[1].op = "updatePassword"
    /\ tasks[2].op = "toggleUserStatus"
    /\ LastWriterLoaded
    /\ ~MutationIn(1, file)

----------------------------------------------------------------------------
(* C15 *)

\* The last operation is one of the six mutators that take an id, and no
\* loaded record has that id.
MissingIdMutation ==
    /\ last.op \in {"updateUser", "toggleUserStatus", "updatePassword", "deleteUser",
                    "enableTotp", "disableTotp"}
    /\ IndexOfId(last.loaded, last.arg.id) = 0

\* C15: for an id that is not in the store updateUser and toggleUserStatus
\* return null, updatePassword, deleteUser, enableTotp and disableTotp
\* return false; none of them throws and none of them writes the file.
C15_MissingIdIsNoOp ==
    MissingIdMutation
        => IF last.op \in {"updateUser", "toggleUserStatus"}
           THEN Refused("null")
           ELSE Refused("false")

\* deleteUser was called with an id no record has, on a store with records.
C15_Witness ==
    /\ MissingIdMutation
    /\ last.op = "deleteUser"
    /\ last.readOk
    /\ Len(last.loaded) = 2

----------------------------------------------------------------------------
(* C16 *)

\* The position of the record the last updateUser was aimed at.
UpdatedAt == IndexOfId(last.loaded, last.arg.id)

\* The file as a later operation loads it.
Reloaded == LoadInto(<<>>, UsersArray(file), 1)

\* C16: whatever the partial holds, after an updateUser that was written
\* the record has the id, the createdAt and the password hash it had when
\* loaded, in the file and as a later operation loads it.
C16_UpdateKeepsProtected ==
    (last.op = "updateUser" /\ last.write = "ok")
        => \A f \in {"id", "createdAt", "password"} :
              /\ Get(file.users[UpdatedAt], f) = Get(last.loaded[UpdatedAt], f)
              /\ Get(Reloaded[UpdatedAt], f) = Get(last.loaded[UpdatedAt], f)

----------------------------------------------------------------------------
(* C17 *)

\* The last operation was a createUser that returned its record.
Created == last.op = "createUser" /\ last.status = "object"

\* What that createUser was given, the record it stored and the record
\* the file holds for it.
Data == last.arg.data
Stored == users[Len(users)]
Written == file.users[Len(file.users)]

\* A password, a secret is supplied when it is a non-empty text;
\* generateCredentials is set when it is true.
PasswordSupplied == Truthy(Get(Data, "password"))
SecretSupplied == Truthy(Get(Data, "totpSecret"))
CredentialsWanted == Truthy(Get(Data, "generateCredentials"))

\* C17: the firstLogin createUser stores is the one supplied, whatever else
\* is supplied; without one, it is true when no password was supplied and
\* false when one was.
C17_FirstLoginOnCreate ==
    Created
        => /\ Get(Stored, "firstLogin") =
                 IF "firstLogin" \in DOMAIN Data THEN Data.firstLogin
                 ELSE IF PasswordSupplied THEN False ELSE True
           /\ Get(Written, "firstLogin") = Get(Stored, "firstLogin")

\* A record was created without a password and with firstLogin false.
C17_Witness ==
    /\ Created
    /\ Get(Data, "firstLogin") = False
    /\ ~PasswordSupplied
    /\ Get(Written, "firstLogin") = False

----------------------------------------------------------------------------
(* C18 *)

\* The tempPassword the last createUser returned, undefined if none.
TempReturned == Get(last.ret[1], "tempPassword")

\* C18: createUser returns a tempPassword exactly when generateCredentials
\* is set or no password is supplied, and it is the 12-character value of
\* the generator; with a password and without generateCredentials the
\* generator is not asked for, configured or not.
C18_TempPasswordWhen ==
    /\ Created
          => /\ (TempReturned # Undefined) <=> (CredentialsWanted \/ ~PasswordSupplied)
             /\ TempReturned # Undefined
                   => /\ TempReturned = GenerateTempPassword(12)
                      /\ Len(TempReturned) = 12
    /\ (last.op = "createUser" /\ PasswordSupplied /\ ~CredentialsWanted)
          => last.status # NotConfigured("generateTempPassword")

\* A tempPassword was returned to a createUser that was given a password
\* and generateCredentials.
C18_Witness ==
    /\ Created
    /\ PasswordSupplied
    /\ CredentialsWanted
    /\ TempReturned # Undefined

----------------------------------------------------------------------------
(* C19 *)

\* C19: when createUser returns a tempPassword the hash it stores is the
\* hash of that tempPassword; the supplied password is hashed only when
\* generateCredentials is not requested.
C19_TempPasswordIsStored ==
    Created
        => /\ TempReturned # Undefined => Get(Stored, "password") = Hash(TempReturned)
           /\ (PasswordSupplied /\ Get(Stored, "password") = Hash(Data.password))
                 => ~CredentialsWanted

----------------------------------------------------------------------------
(* C20 *)

\* createUser is to establish a TOTP secret.
SecretEstablished == SecretSupplied \/ CredentialsWanted

\* C20: createUser stores a TOTP secret exactly when one is supplied or
\* generateCredentials is set: the supplied one as it is, without asking
\* for the generator, else the generated one.  The result has totpUri and
\* qrCode exactly then, the stored totpEnabled says whether there is a
\* secret, and the record in the file has no totpUri, qrCode, tempPassword.
C20_TotpOnCreate ==
    /\ Created
          => /\ Get(Stored, "totpSecret") =
                   IF SecretSupplied THEN Data.totpSecret
                   ELSE IF CredentialsWanted THEN GenerateTOTPSecret
                   ELSE Null
             /\ Get(Written, "totpSecret") = Get(Stored, "totpSecret")
             /\ (Get(last.ret[1], "totpUri") # Undefined) <=> SecretEstablished
             /\ (Get(last.ret[1], "qrCode") # Undefined) <=> SecretEstablished
             /\ Get(Stored, "totpEnabled") = IF SecretEstablished THEN True ELSE False
             /\ Get(Written, "totpEnabled") = Get(Stored, "totpEnabled")
             /\ DOMAIN Written \cap {"totpUri", "qrCode", "tempPassword"} = {}
    /\ (last.op = "createUser" /\ SecretSupplied)
          => last.status # NotConfigured("generateTOTPSecret")

\* A record was created with a supplied secret and generateCredentials
\* while no secret generator was configured.
C20_Witness ==
    /\ Created
    /\ SecretSupplied
    /\ CredentialsWanted
    /\ "generateTOTPSecret" \notin config
    /\ Get(Written, "totpSecret") = "MYSECRET"

----------------------------------------------------------------------------
(* C21 *)

\* The collaborators the last createUser has to call for what it was given:
\* the temp-password generator without a password or with
\* generateCredentials, the URI and QR functions when a secret is to be
\* established, the secret generator when that secret is not supplied.
Needed ==
    (IF CredentialsWanted \/ ~PasswordSupplied THEN {"generateTempPassword"} ELSE {})
    \cup (IF SecretEstablished THEN {"generateTOTPUri", "generateTOTPQRCode"} ELSE {})
    \cup (IF SecretEstablished /\ ~SecretSupplied THEN {"generateTOTPSecret"} ELSE {})

----------------------------------------------------------------------------
(* C22 *)

\* Two objects with the same properties and values, a property that is
\* undefined counting as one that is missing.
SameRecord(a, b) == \A f \in DOMAIN a \cup DOMAIN b : Get(a, f) = Get(b, f)

\* What a new instance loads from the content saveUsers writes for the Map m.
SavedAndLoaded(m) == LoadInto(<<>>, UsersArray(Serialize(m)), 1)

\* The Map l holds the records of the Map m, in the order of m, each as
\* the legacy normalization leaves it.
EquivalentMaps(m, l) ==
    /\ Len(l) = Len(m)
    /\ \A i \in 1..Len(m) :
          /\ Get(l[i], "id") = Get(m[i], "id")
          /\ SameRecord(l[i], Normalize(m[i]))

\* C22: the Map of every reachable state, saved and loaded by a new
\* instance, comes back with the same ids in the same order and every
\* record equal in all its fields up to the legacy normalization; so does
\* the file the last operation wrote.
C22_SaveLoadRoundTrip ==
    /\ EquivalentMaps(users, SavedAndLoaded(users))
    /\ last.write = "ok" => EquivalentMaps(users, Reloaded)

\* A Map with a record that has a field of the application's own was
\* changed, written, and loads as it is in memory.
C22_Witness ==
    /\ last.write = "ok"
    /\ last.op = "toggleUserStatus"
    /\ Len(users) = 2
    /\ Get(users[1], "note") = "keep"
    /\ Get(Reloaded[1], "note") = "keep"
    /\ Reloaded = users

----------------------------------------------------------------------------
(* C23 *)

\* The record of the file the last operation read that has the id of the
\* i-th record it loaded.
InFile(i) ==
    last.fileBefore.users[IndexOfId(last.fileBefore.users, Get(last.loaded[i], "id"))]

\* C23: a password or isActive the file's record has, whatever its value,
\* is loaded as it is; where the loaded value is not the file's, it is the
\* file's passwordHash, the file's active.
C23_LoadKeepsCanonical ==
    (last.op # "none" /\ last.readOk)
        => \A i \in 1..Len(last.loaded) :
              /\ "password" \in DOMAIN InFile(i)
                    => Get(last.loaded[i], "password") = InFile(i).password
              /\ "isActive" \in DOMAIN InFile(i)
                    => Get(last.loaded[i], "isActive") = InFile(i).isActive
              /\ Get(last.loaded[i], "password") # Get(InFile(i), "password")
                    => Get(last.loaded[i], "password") = Get(InFile(i), "passwordHash")
              /\ Get(last.loaded[i], "isActive") # Get(InFile(i), "isActive")
                    => Get(last.loaded[i], "isActive") = Get(InFile(i), "active")

----------------------------------------------------------------------------
(* C24 *)

\* The last operation was an updatePassword that returned true.
PasswordChanged == last.op = "updatePassword" /\ last.status = "true"

\* The record that updatePassword changed, as the Map holds it.
Changed == users[IndexOfId(users, last.arg.id)]

\* The step is a verifyPassword with the handle of the record whose
\* password the operation before it changed, that record being active; the
\* verifyPassword reads the file and its write, if any, goes through.
VerifiesAfterChange ==
    /\ PasswordChanged
    /\ Truthy(Get(Changed, "isActive"))
    /\ Get(Changed, "handle") # Undefined
    /\ last'.op = "verifyPassword"
    /\ last'.arg.handle = Get(Changed, "handle")
    /\ last'.readOk
    /\ last'.write # "failed"

\* What the claim says of such a verifyPassword: the new password gets the
\* record, every other password, the previous one included, gets null.
NewPasswordOnly ==
    IF last'.arg.password = last.arg.password
    THEN last'.status = "object" /\ Get(last'.ret[1], "id") = last.arg.id
    ELSE last'.status = "null"

----------------------------------------------------------------------------
(* C25 *)

\* The firstLogin of the record with this id in the Map or file records m,
\* undefined when there is no such record or it has no firstLogin.
FirstLoginIn(m, id) ==
    IF IndexOfId(m, id) = 0 THEN Undefined ELSE Get(m[IndexOfId(m, id)], "firstLogin")

\* The step is a needsFirstLoginSetup for the id an enableTotp has just
\* returned true for.
AsksAfterEnable ==
    /\ last.op = "enableTotp"
    /\ last.status = "true"
    /\ last'.op = "needsFirstLoginSetup"
    /\ last'.arg.id = last.arg.id

\* After an enableTotp that returned true the record is stored, in the
\* Map and in the file, without the firstLogin value true.
EnableClears ==
    (last.op = "enableTotp" /\ last.status = "true")
        => /\ FirstLoginIn(users, last.arg.id) # True
           /\ FirstLoginIn(file.users, last.arg.id) # True
           /\ FirstLoginIn(Reloaded, last.arg.id) # True

\* disableTotp, whatever it returns, leaves firstLogin as it was loaded, in
\* the Map and in the file.
DisableKeeps ==
    last.op = "disableTotp"
        => /\ FirstLoginIn(users, last.arg.id) = FirstLoginIn(last.loaded, last.arg.id)
           /\ FirstLoginIn(file.users, last.arg.id)
                 = FirstLoginIn(last.fileBefore.users, last.arg.id)

\* needsFirstLoginSetup answers true when the record it read from the file
\* has the firstLogin value true, and false otherwise: for a missing id, a
\* missing flag, any other value, and a file that cannot be read.
AnswersStoredFlag ==
    last.op = "needsFirstLoginSetup"
        => /\ last.status \in {"true", "false"}
           /\ last.status = "true"
                 <=> (last.readOk /\ FirstLoginIn(last.fileBefore.users, last.arg.id) = True)

\* C25: after enableTotp returned true the record is stored with a
\* firstLogin that is not true and the needsFirstLoginSetup that follows
\* returns false; disableTotp never changes firstLogin; needsFirstLoginSetup
\* returns true exactly when the stored firstLogin is true.
C25_FirstLoginAndTotp ==
    /\ [](EnableClears /\ DisableKeeps /\ AnswersStoredFlag)
    /\ [][AsksAfterEnable => last'.status = "false"]_vars

\* needsFirstLoginSetup read the file and returned false for the record
\* that was waiting for its first login when the run started: an enableTotp
\* came before it.
C25_Witness ==
    /\ last.op = "needsFirstLoginSetup"
    /\ last.arg.id = "u2"
    /\ last.readOk
    /\ last.status = "false"
    /\ init.users = <<Alice, Blank>>
    /\ FirstLoginIn(last.loaded, "u2") = False
    /\ Get(last.loaded[2], "totpSecret") = "NEWSECRET"

----------------------------------------------------------------------------
(* C26 *)

\* The last operation was a toggleUserStatus that returned the record.
Toggled == last.op = "toggleUserStatus" /\ last.status = "object"

\* The isActive of the record with this id in m, undefined when absent.
IsActiveIn(m, id) == Get(m[IndexOfId(m, id)], "isActive")

\* The negation of an isActive that is true, false or absent.
Negated(v) == IF v = True THEN False ELSE True

\* The step is a second toggleUserStatus of the record the operation
\* before it toggled, and that record's isActive was a boolean before both.
ToggledTwice ==
    /\ Toggled
    /\ IsActiveIn(last.loaded, last.arg.id) \in {True, False}
    /\ last'.op = "toggleUserStatus"
    /\ last'.status = "object"
    /\ last'.arg.id = last.arg.id

\* C26: a toggleUserStatus that returns the record returns and stores, in
\* the Map and in the file, the negation of the isActive the record had
\* when loaded, true for a record without isActive; a second toggle that
\* follows returns and stores the isActive the record had before the first.
C26_ToggleNegates ==
    /\ [](Toggled
            => /\ IsActiveIn(last.loaded, last.arg.id) \in {True, False, Undefined}
               /\ Get(last.ret[1], "isActive") = Negated(IsActiveIn(last.loaded, last.arg.id))
               /\ IsActiveIn(users, last.arg.id) = Get(last.ret[1], "isActive")
               /\ IsActiveIn(file.users, last.arg.id) = Get(last.ret[1], "isActive")
               /\ IsActiveIn(Reloaded, last.arg.id) = Get(last.ret[1], "isActive"))
    /\ [][ToggledTwice
            => /\ Get(last'.ret[1], "isActive") = IsActiveIn(last.loaded, last.arg.id)
               /\ IsActiveIn(file'.users, last.arg.id) = IsActiveIn(last.loaded, last.arg.id)]_vars

\* A record without isActive and without the legacy active was toggled and
\* is stored with isActive true.
C26_Witness ==
    /\ Toggled
    /\ last.arg.id = "u1"
    /\ last.fileBefore.users = <<Orphan, Bare>>
    /\ "isActive" \notin DOMAIN last.loaded[1]
    /\ Get(last.ret[1], "isActive") = True
    /\ Get(file.users[1], "isActive") = True

\* Alice, active when the run started, was toggled twice and is active.
C26_WitnessTwice ==
    /\ Toggled
    /\ last.arg.id = "u1"
    /\ init.users = <<Alice, Blank>>
    /\ Get(last.loaded[1], "isActive") = False
    /\ Get(file.users[1], "isActive") = True

----------------------------------------------------------------------------
(* C27 *)

\* The operations that change a record they find.
RecordChangingOps ==
    {"updateUser", "updatePassword", "toggleUserStatus", "enableTotp", "disableTotp",
     "verifyPassword"}

\* The id of the record the last operation changed.
ChangedId == IF last.op = "verifyPassword" THEN Get(last.ret[1], "id") ELSE last.arg.id

\* The value of field f of the record with this id in m.
FieldIn(m, id, f) == Get(m[IndexOfId(m, id)], f)

\* C27: after an operation that changed a record and wrote it, a matching
\* verifyPassword included, the record's updatedAt is the time of the
\* operation, in the Map and in the file; and every record that was loaded
\* and is still there has the createdAt it was loaded with.
C27_UpdatedAtOnEveryChange ==
    /\ (last.op \in RecordChangingOps /\ last.write = "ok")
          => /\ FieldIn(users, ChangedId, "updatedAt") = ISO(last.at)
             /\ FieldIn(file.users, ChangedId, "updatedAt") = ISO(last.at)
    /\ \A i \in 1..Len(last.loaded) :
          IndexOfId(users, Get(last.loaded[i], "id")) # 0
              => FieldIn(users, Get(last.loaded[i], "id"), "createdAt")
                    = Get(last.loaded[i], "createdAt")

----------------------------------------------------------------------------
(* C28 *)

\* The last operation was a verifyPassword whose handle and password are
\* those of the record r.
MatchedBy(r) ==
    /\ last.op = "verifyPassword"
    /\ Get(r, "handle") = last.arg.handle
    /\ Truthy(Get(r, "password"))
    /\ Compare(last.arg.password, Get(r, "password"))

\* C28: after an operation whose write did not fail, a record that was
\* loaded and is still there has the lastLogin it was loaded with, in the
\* Map and in the file, unless the operation was a verifyPassword that
\* matched it.
C28_LastLoginOnlyByVerify ==
    last.write # "failed" =>
    \A i \in 1..Len(last.loaded) :
        LET r == last.loaded[i]
            id == Get(r, "id")
        IN  /\ (IndexOfId(users, id) # 0
                  /\ FieldIn(users, id, "lastLogin") # Get(r, "lastLogin"))
                  => MatchedBy(r)
            /\ (IndexOfId(file.users, id) # 0
                  /\ FieldIn(file.users, id, "lastLogin") # Get(r, "lastLogin"))
                  => MatchedBy(r)

----------------------------------------------------------------------------
(* C29 *)

\* The caller of call t has changed what the call returned.
CallerModified(t) == tasks[t].modAt > 0

\* None of these records has the username the caller wrote.
Untouched(recs) == \A i \in 1..Len(recs) : Get(recs[i], "username") # "MUTATED"

\* No readFile and no writeFile of the two calls has failed.
NoCallFailed ==
    \A t \in Tasks : /\ tasks[t].data.kind # "unreadable"
                     /\ tasks[t].status # "Failed to persist user changes"

\* C29: once a caller has changed an object a read returned, no record of
\* the file has the change, whichever call wrote the file, and no call
\* that read the file after the change returns a record with it.
C29_ReadsReturnCopies ==
    \A t \in Tasks :
        (CallerModified(t) /\ NoCallFailed)
            => /\ Untouched(file.users)
               /\ \A s \in Tasks \ {t} :
                     (tasks[s].pc = "done" /\ tasks[s].readAt > tasks[t].modAt)
                         => Untouched(tasks[s].ret)

----------------------------------------------------------------------------
(* C30 *)

\* The position of the record verifyPassword(h, p) would return from the
\* file as it is now, 0 when it would return null.
WouldVerify(h, p) == VerifiedIndex(Reloaded, h, p)

\* C30: after a createUser with a password P that returned its record, the
\* record has a handle h, verifyPassword(h, P) on the file as written finds
\* that record, and verifyPassword(h, p) finds none for the other passwords.
C30_CreatedUserVerifies ==
    (Created /\ PasswordSupplied)
        => /\ Get(Written, "handle") \notin {Undefined, Null}
           /\ \E h \in {Get(Written, "handle")} :
                 /\ WouldVerify(h, Data.password) # 0
                 /\ Get(Reloaded[WouldVerify(h, Data.password)], "id") = Get(Stored, "id")
                 /\ \A p \in {"pw1", "pw2", "wrong"} \ {Data.password} : WouldVerify(h, p) = 0

----------------------------------------------------------------------------
(* C31 *)

\* The last operation was a deleteUser that returned true.
Deleted == last.op = "deleteUser" /\ last.status = "true"

\* What each method that takes an id answers when no record has the id.
MissingIdAnswer ==
    [getUserById |-> "null", updateUser |-> "null", updatePassword |-> "false",
     deleteUser |-> "false", toggleUserStatus |-> "null", getTotpSecret |-> "null",
     enableTotp |-> "false", disableTotp |-> "false", needsFirstLoginSetup |-> "false"]

\* No record of recs has this id.
NoneWithId(recs, id) == \A i \in 1..Len(recs) : Get(recs[i], "id") # id

\* The step is an operation on a file that has no record with this id.
GoneBefore(id) == NoneWithId(file.users, id) /\ last'.op # "none"

\* C31: after deleteUser(id) returned true neither the file, nor the file
\* as reloaded, nor the Map has a record with the id; and an operation on a
\* file without a record of some id leaves the file and the Map without
\* one, returns none, and answers as for a missing id when it is given
\* that id.  No later operation brings the id back.
C31_DeleteIsPermanent ==
    /\ [](Deleted
            => /\ NoneWithId(file.users, last.arg.id)
               /\ NoneWithId(Reloaded, last.arg.id)
               /\ NoneWithId(users, last.arg.id))
    /\ [][\A id \in {"u1", "u2"} :
            GoneBefore(id)
               => /\ NoneWithId(file'.users, id)
                  /\ NoneWithId(users', id)
                  /\ last'.status \in {"array", "object"} => NoneWithId(last'.ret, id)
                  /\ ("id" \in DOMAIN last'.arg /\ last'.arg.id = id)
                        => last'.status = MissingIdAnswer[last'.op]]_vars

\* Blank was deleted and the toggleUserStatus that followed read the file
\* and answered as for a missing id.
C31_Witness ==
    /\ last.op = "toggleUserStatus"
    /\ last.arg.id = "u2"
    /\ last.status = "null"
    /\ last.readOk
    /\ init.users = <<Alice, Blank>>
    /\ last.fileBefore.users = <<Alice>>

----------------------------------------------------------------------------
(* C32 *)

\* The fields configure was given values for in some call.
ConfigFields == {"usersFilePath", "saltRounds", "generateTempPassword"}

\* The first call after the last resetConfig; 1 when there was none.
SinceReset ==
    IF \E i \in 1..Len(calls) : calls[i].op = "resetConfig"
    THEN 1 + CHOOSE i \in 1..Len(calls) :
                 /\ calls[i].op = "resetConfig"
                 /\ \A j \in (i + 1)..Len(calls) : calls[j].op # "resetConfig"
    ELSE 1

\* The configure calls since then that supplied field f.
Suppliers(f) ==
    {i \in SinceReset..Len(calls) : calls[i].op = "configure" /\ f \in DOMAIN calls[i].arg}

\* The value the most recent of them gave.
ValueGiven(f) ==
    calls[CHOOSE i \in Suppliers(f) : \A j \in Suppliers(f) : j <= i].arg[f]

\* The step is a getConfig whose caller writes into what it got.
WritesIntoCopy == Len(calls') = Len(calls) + 1 /\ calls'[Len(calls')].op = "getConfig"

----------------------------------------------------------------------------
(* C33 *)

\* The positions of the loaded records whose handle is the one asked for.
WithHandle == {i \in 1..Len(last.loaded) : Get(last.loaded[i], "handle") = last.arg.handle}

\* The first of them.
FirstWithHandle == CHOOSE i \in WithHandle : \A j \in WithHandle : i <= j

\* The loaded record at position i is active and has the password given.
Verifies(i) ==
    /\ Truthy(Get(last.loaded[i], "isActive"))
    /\ Truthy(Get(last.loaded[i], "password"))
    /\ Compare(last.arg.password, Get(last.loaded[i], "password"))

\* C33: getUserByHandle returns the first loaded record with the handle,
\* null when there is none; verifyPassword returns null when there is none
\* or the first one is inactive, has no hash or another password, whatever
\* the later records with the handle are, and otherwise returns (or fails
\* to write) the first one.
C33_FirstMatchOnly ==
    /\ last.op = "getUserByHandle"
          => IF WithHandle = {} THEN last.status = "null"
             ELSE /\ last.status = "object"
                  /\ last.ret = <<Redact(last.loaded[FirstWithHandle])>>
    /\ last.op = "verifyPassword"
          => IF WithHandle = {} \/ ~Verifies(FirstWithHandle)
             THEN last.status = "null" /\ last.write = "none"
             ELSE \/ /\ last.status = "object"
                     /\ Get(last.ret[1], "id") = Get(last.loaded[FirstWithHandle], "id")
                  \/ last.write = "failed"

\* verifyPassword returned null for a password that is not the first
\* record's while the second record has the same handle, is active and has
\* that password.
C33_Witness ==
    /\ last.op = "verifyPassword"
    /\ last.status = "null"
    /\ WithHandle = {1, 2}
    /\ ~Verifies(1)
    /\ Verifies(2)

----------------------------------------------------------------------------
(* C34 *)

\* The operation before returned true from the TOTP mutator named, and the
\* operation after is a getTotpSecret of the same id whose read succeeded.
SecretAskedAfter(op) ==
    /\ last.op = op
    /\ last.status = "true"
    /\ last'.op = "getTotpSecret"
    /\ last'.arg.id = last.arg.id
    /\ last'.readOk

\* getTotpSecret answered the string s.
AnswersSecret(s) == last'.status = "string" /\ last'.ret = <<s>>

\* C34: getTotpSecret returns null for an id that is not loaded; after an
\* enableTotp(id, s) that returned true it returns s, and after a
\* disableTotp(id) that returned true it returns null.
C34_SecretRoundTrip ==
    /\ [](last.op = "getTotpSecret" /\ IndexOfId(last.loaded, last.arg.id) = 0
              => last.status = "null")
    /\ [][/\ SecretAskedAfter("enableTotp") => AnswersSecret(last.arg.secret)
          /\ SecretAskedAfter("disableTotp") => last'.status = "null"]_vars

\* The same for the secrets that are not the empty string.
C34_NonEmptySecretRoundTrip ==
    /\ [](last.op = "getTotpSecret" /\ IndexOfId(last.loaded, last.arg.id) = 0
              => last.status = "null")
    /\ [][/\ SecretAskedAfter("enableTotp") /\ last.arg.secret # ""
              => AnswersSecret(last.arg.secret)
          /\ SecretAskedAfter("disableTotp") => last'.status = "null"]_vars

----------------------------------------------------------------------------
(* C35 *)

\* The records of the file the last operation read, and those it wrote.
Before == UsersArray(last.fileBefore)
After == file.users

\* The last operation read the file and wrote it.
ReadAndWrote == last.readOk /\ last.write = "ok"

\* Record i of the file read is record j of the file written, normalized.
Kept(i, j) == After[j] = Stringify(Normalize(Before[i]))

\* The position in the file read of the record the last operation
\* changed: the one with the id given or, for verifyPassword, the one
\* returned.
TargetId ==
    IF last.op = "verifyPassword" THEN Get(last.ret[1], "id") ELSE last.arg.id
TargetAt == CHOOSE k \in 1..Len(Before) : Get(Before[k], "id") = TargetId

\* The operations that change a record where it is.
InPlaceOps ==
    {"updateUser", "updatePassword", "toggleUserStatus", "verifyPassword",
     "enableTotp", "disableTotp"}

\* C35: an operation that read the file and wrote it leaves every record
\* other than its target as it was read (normalized) and in the same
\* order: updateUser and the in-place mutators keep the target where it
\* was, deleteUser takes out the target only, createUser puts one record
\* after the others.
C35_OthersKeptInOrder ==
    ReadAndWrote =>
        /\ last.op \in InPlaceOps =>
              /\ Len(After) = Len(Before)
              /\ \E k \in 1..Len(Before) : Get(Before[k], "id") = TargetId
              /\ Get(After[TargetAt], "id") = TargetId
              /\ \A i \in 1..Len(Before) : i # TargetAt => Kept(i, i)
        /\ last.op = "deleteUser" =>
              /\ Len(After) = Len(Before) - 1
              /\ \E k \in 1..Len(Before) : Get(Before[k], "id") = TargetId
              /\ \A i \in 1..Len(Before) :
                    /\ i < TargetAt => Kept(i, i)
                    /\ i > TargetAt => Kept(i, i - 1)
        /\ last.op = "createUser" =>
              /\ Len(After) = Len(Before) + 1
              /\ \A i \in 1..Len(Before) :
                    /\ Kept(i, i)
                    /\ Get(After[Len(After)], "id") # Get(Before[i], "id")

\* updateUser changed the first of two legacy records and the second one
\* was written after it, normalized.
C35_Witness ==
    /\ ReadAndWrote
    /\ last.op = "updateUser"
    /\ Len(Before) = 2
    /\ TargetAt = 1
    /\ After[1] # Stringify(Normalize(Before[1]))
    /\ After[2] # Before[2]
    /\ Kept(2, 2)

\* deleteUser took the first of two records out.
C35_WitnessDelete ==
    /\ ReadAndWrote
    /\ last.op = "deleteUser"
    /\ Len(Before) = 2
    /\ TargetAt = 1
    /\ Len(After) = 1
    /\ Kept(2, 1)

\* createUser put its record after the two there were.
C35_WitnessCreate ==
    /\ ReadAndWrote
    /\ last.op = "createUser"
    /\ Len(Before) = 2
    /\ Len(After) = 3

----------------------------------------------------------------------------
(* C36 *)

\* The methods that only read.
ReadOnlyOps ==
    {"getAllUsers", "getUserById", "getUserByHandle", "getTotpSecret",
     "needsFirstLoginSetup"}

\* C36: a step of getAllUsers, getUserById, getUserByHandle, getTotpSecret
\* or needsFirstLoginSetup leaves the file as it is and makes no write,
\* whether its read succeeded or not.
C36_ReadsNeverWrite ==
    [][last'.op \in ReadOnlyOps /\ last' # last
          => /\ file' = file
             /\ last'.write = "none"
             /\ last'.fileBefore = file]_vars

\* A read-only method whose read failed returned, and the two records of
\* the file are still there.
C36_Witness ==
    /\ last.op \in ReadOnlyOps
    /\ ~last.readOk
    /\ last.write = "none"
    /\ Len(file.users) = 2
    /\ file = last.fileBefore

----------------------------------------------------------------------------
(* C37 *)

\* The last operation was a createUser whose read failed.
CreatedBlind == last.op = "createUser" /\ ~last.readOk

\* C37: a createUser whose read failed never refuses its username as a
\* duplicate, and when its write succeeds the file holds one record, the
\* one created, and no record of the file it could not read.
C37_BlindCreateReplacesFile ==
    CreatedBlind =>
        /\ last.status # "Username already exists"
        /\ last.write = "ok" =>
              /\ Len(file.users) = 1
              /\ last.status = "object"
              /\ Get(file.users[1], "id") = Get(last.ret[1], "id")
              /\ Get(file.users[1], "username") = last.arg.data.username
              /\ \A i \in 1..Len(last.fileBefore.users) :
                    /\ NoneWithId(file.users, Get(last.fileBefore.users[i], "id"))
                    /\ file.users[1] # last.fileBefore.users[i]

\* createUser could not read a file of two records, one of them with the
\* username asked for, and wrote a file of one record.
C37_Witness ==
    /\ CreatedBlind
    /\ last.write = "ok"
    /\ Len(last.fileBefore.users) = 2
    /\ \E i \in 1..2 : Get(last.fileBefore.users[i], "username") = last.arg.data.username
    /\ Len(file.users) = 1

----------------------------------------------------------------------------
(* C38 *)

\* The operation before failed to write, and the operation after read the
\* file.
ReadAfterFailedWrite ==
    /\ last.write = "failed"
    /\ last'.op # "none"
    /\ last' # last
    /\ last'.readOk

\* C38: a failed write is reported as 'Failed to persist user changes'
\* and leaves the file as it was; the next operation whose read succeeds
\* works on the records of the file, not on the Map the failed operation
\* left, and a getAllUsers then returns the file's records.
C38_UnpersistedGoneOnNextRead ==
    /\ [](last.write = "failed"
              => /\ last.status = "Failed to persist user changes"
                 /\ file = last.fileBefore)
    /\ [][ReadAfterFailedWrite
              => /\ last'.loaded = Reloaded
                 /\ last'.fileBefore = last.fileBefore
                 /\ last'.op = "getAllUsers"
                       => /\ last'.ret = [i \in 1..Len(Reloaded) |-> Redact(Reloaded[i])]
                          /\ users' = Reloaded]_vars

\* A createUser took an id and failed to write its record, which the Map
\* kept; the getAllUsers after it returned the two records of the file.
C38_Witness ==
    /\ uuidCounter = 1
    /\ init.kind = "wrapped"
    /\ file = init
    /\ last.op = "getAllUsers"
    /\ last.readOk
    /\ last.at = 1
    /\ Len(last.ret) = 2
    /\ users = Reloaded

----------------------------------------------------------------------------
(* C39 *)

\* The handles and the passwords a caller may try after a createUser: the
\* handles of the other records, the username and the display name
\* created, the empty text; the passwords of the other records, the one
\* supplied and the temporary one returned.
HandlesTried == {"ah", "bh", "zz", "", Data.username, Get(Stored, "displayName")}
PasswordsTried ==
    {"pw1", "pw2", "wrong"}
        \cup {p \in {Get(Data, "password"), Get(last.ret[1], "tempPassword")} :
                 p \notin {Undefined, Null}}

\* The operation before was a createUser that returned its record, and the
\* operation after looks a record up by handle.
LooksUpAfterCreate ==
    /\ Created
    /\ last' # last
    /\ last'.op \in {"getUserByHandle", "verifyPassword"}

\* The records other than the created one that the file holds.
OtherHandles ==
    {Get(file.users[i], "handle") :
        i \in {j \in 1..Len(file.users) :
                  Get(file.users[j], "id") # Get(last.ret[1], "id")}}

\* C39: the record createUser stores, writes and returns has no handle;
\* on the file as written no handle and no password, the created and the
\* temporary one included, makes verifyPassword accept the created record;
\* a getUserByHandle or verifyPassword that follows the createUser never
\* returns the created record, and returns null unless another record has
\* the handle asked for.
C39_CreatedHasNoHandle ==
    /\ [](Created
            => /\ "handle" \notin DOMAIN Stored
               /\ "handle" \notin DOMAIN Written
               /\ "handle" \notin DOMAIN last.ret[1]
               /\ Get(Written, "id") = Get(last.ret[1], "id")
               /\ \A h \in HandlesTried, p \in PasswordsTried :
                     \/ WouldVerify(h, p) = 0
                     \/ Get(Reloaded[WouldVerify(h, p)], "id") # Get(Written, "id")
               /\ \A h \in HandlesTried :
                     \/ FindBy(Reloaded, "handle", h) = 0
                     \/ Get(Reloaded[FindBy(Reloaded, "handle", h)], "id") # Get(Written, "id"))
    /\ [][LooksUpAfterCreate
            => /\ last'.status = "object"
                    => Get(last'.ret[1], "id") # Get(last.ret[1], "id")
               /\ last'.arg.handle \notin OtherHandles => last'.status = "null"]_vars

\* createUser wrote a record with a password into a file without records,
\* and the verifyPassword after it, given that password, returned null.
C39_Witness ==
    /\ uuidCounter = 1
    /\ last.op = "verifyPassword"
    /\ last.readOk
    /\ last.status = "null"
    /\ Len(last.loaded) = 1
    /\ Get(last.loaded[1], "id") = Uuid(1)
    /\ "handle" \notin DOMAIN last.loaded[1]
    /\ Truthy(Get(last.loaded[1], "isActive"))
    /\ Compare(last.arg.password, Get(last.loaded[1], "password"))

----------------------------------------------------------------------------
(* C40 *)

\* The record with this id among recs.
WithId(recs, id) == recs[IndexOfId(recs, id)]

\* Task 1 is updatePassword(u1) and task 2 toggleUserStatus(u1) on the
\* same instance, and both have written the file.
PasswordAndToggle ==
    /\ tasks[1].op = "updatePassword"
    /\ tasks[2].op = "toggleUserStatus"
    /\ tasks[1].inst = tasks[2].inst
    /\ tasks[1].arg.id = tasks[2].arg.id
    /\ tasks[1].wrote # NoData
    /\ tasks[2].wrote # NoData

\* updatePassword was waiting for its hash while toggleUserStatus loaded,
\* deactivated the record and wrote it: the object updatePassword holds was
\* loaded before the one the toggle loaded and changed, the toggle wrote
\* the record deactivated, the hash ended after the toggle changed its
\* object, and updatePassword wrote last.
ToggledDuringHash ==
    /\ PasswordAndToggle
    /\ tasks[1].user < tasks[2].user
    /\ tasks[1].at > tasks[2].at
    /\ tasks[1].wroteAt > tasks[2].wroteAt
    /\ Get(WithId(tasks[2].wrote.users, tasks[2].arg.id), "isActive") = False

\* C40: when toggleUserStatus(id) loaded, deactivated and wrote the record
\* while updatePassword(id) on the same instance was waiting for its hash,
\* the file after updatePassword's write is the one it wrote, with the new
\* hash and with isActive as it was before the toggle, and toggleUserStatus
\* returns the record deactivated.
C40_ToggleLostToPasswordWrite ==
    ToggledDuringHash
        => /\ file = tasks[1].wrote
           /\ Get(WithId(file.users, tasks[1].arg.id), "isActive")
                 = Get(WithId(init.users, tasks[1].arg.id), "isActive")
           /\ Get(WithId(file.users, tasks[1].arg.id), "isActive") = True
           /\ Get(WithId(file.users, tasks[1].arg.id), "password")
                 = Hash(tasks[1].arg.password)
           /\ tasks[2].pc = "done"
                 => /\ tasks[2].status = "object"
                    /\ Get(tasks[2].ret[1], "isActive") = False

\* Both calls have returned, updatePassword true and toggleUserStatus the
\* record deactivated, and the toggle was written during the hash.
C40_Witness ==
    /\ ToggledDuringHash
    /\ tasks[1].pc = "done"
    /\ tasks[1].status = "true"
    /\ tasks[2].pc = "done"
    /\ tasks[2].status = "object"
    /\ Get(tasks[2].ret[1], "isActive") = False
    /\ Get(WithId(file.users, "u1"), "isActive") = True

====
